---- MODULE Spec2Model ----
(***************************************************************************)
(* Model of the chart-engine indicator computation                         *)
(* (backend/chart-engine/utils.py) and of the two command line entry       *)
(* points that call it (generate_candlestick.py, generate_indicators.py).  *)
(*                                                                         *)
(* Numbers.  A float64 cell is modelled as an exact rational <<n, d>> in   *)
(* lowest terms with d > 0; the absent-value marker (NaN) is <<0, 0>>.     *)
(* Rounding of binary floating point is not modelled.                      *)
(*                                                                         *)
(* Arrays.  A numpy array / DataFrame column of length N is a function     *)
(* over 0..N-1, so every index below is the index used by the Python code. *)
(*                                                                         *)
(* DataFrame.  A DataFrame is a function from column names to columns.  A  *)
(* column name is a tuple: <<"close">>, <<"rsi">>, and <<"sma", 20>> for   *)
(* the f-string f'sma_{period}' (formatting an int is injective).          *)
(***************************************************************************)
EXTENDS Integers, Sequences, FiniteSets, TLC

(***************************************************************************)
(* float64 arithmetic (exact), with NaN propagation as in numpy            *)
(***************************************************************************)
NaN == <<0, 0>>

IsNaN(x) == x = NaN

Abs(n) == IF n < 0 THEN -n ELSE n

RECURSIVE Gcd(_, _)
Gcd(a, b) == IF b = 0 THEN a ELSE Gcd(b, a % b)

\* n/d in lowest terms, d # 0
Rat(n, d) ==
    LET g == Gcd(Abs(n), Abs(d))
        s == IF d < 0 THEN -1 ELSE 1
    IN  <<(s * n) \div g, (s * d) \div g>>

Num(n) == <<n, 1>>

FAdd(x, y) == IF IsNaN(x) \/ IsNaN(y) THEN NaN
              ELSE Rat(x[1] * y[2] + y[1] * x[2], x[2] * y[2])

FNeg(x) == IF IsNaN(x) THEN NaN ELSE <<-x[1], x[2]>>

FSub(x, y) == FAdd(x, FNeg(y))

FMul(x, y) == IF IsNaN(x) \/ IsNaN(y) THEN NaN
              ELSE Rat(x[1] * y[1], x[2] * y[2])

\* x / y; every division by a possibly-zero value in utils.py is guarded, and
\* 0/0 is NaN
FDiv(x, y) == IF IsNaN(x) \/ IsNaN(y) \/ y[1] = 0 THEN NaN
              ELSE Rat(x[1] * y[2], x[2] * y[1])

\* comparisons with NaN are False
FLt(x, y) == ~IsNaN(x) /\ ~IsNaN(y) /\ x[1] * y[2] < y[1] * x[2]

FGt(x, y) == FLt(y, x)

FAbs(x) == IF IsNaN(x) THEN NaN ELSE <<Abs(x[1]), x[2]>>

\* Python min/max and np.minimum/np.maximum on values without NaN
FMin(x, y) == IF FLt(y, x) THEN y ELSE x

FMax(x, y) == IF FGt(y, x) THEN y ELSE x

(***************************************************************************)
(* array helpers                                                           *)
(***************************************************************************)
\* len(a)
Size(a) == Cardinality(DOMAIN a)

\* np.zeros_like(a)
Zeros(n) == [i \in 0..(n - 1) |-> Num(0)]

\* np.sum(a[lo:hi+1])
RECURSIVE SumRange(_, _, _)
SumRange(a, lo, hi) == IF hi < lo THEN Num(0)
                       ELSE FAdd(SumRange(a, lo, hi - 1), a[hi])

\* np.mean(a[lo:hi+1])
MeanRange(a, lo, hi) == FDiv(SumRange(a, lo, hi), Num(hi - lo + 1))

\* np.max(a[lo:hi+1]), np.min(a[lo:hi+1])
RECURSIVE MaxRange(_, _, _)
MaxRange(a, lo, hi) == IF hi = lo THEN a[lo]
                       ELSE FMax(MaxRange(a, lo, hi - 1), a[hi])

RECURSIVE MinRange(_, _, _)
MinRange(a, lo, hi) == IF hi = lo THEN a[lo]
                       ELSE FMin(MinRange(a, lo, hi - 1), a[hi])

\* dict.get(key, default)
Get(d, key, default) == IF key \in DOMAIN d THEN d[key] ELSE default

(***************************************************************************)
(* Indicator library (utils.py)                                            *)
(***************************************************************************)
\* fault: rolling(window=period, min_periods=1), the mean of the bars at hand
calculate_sma_partial_window(prices, period) ==
    [i \in DOMAIN prices |->
        IF i < period - 1 THEN MeanRange(prices, 0, i)
        ELSE MeanRange(prices, i - (period - 1), i)]

\* pd.Series(prices).rolling(window=period).mean(): NaN until the window is
\* full (min_periods = window), then the mean of the trailing window
calculate_sma(prices, period) ==
    [i \in DOMAIN prices |->
        IF i < period - 1 THEN NaN
        ELSE MeanRange(prices, i - (period - 1), i)]

\* fault: Wilder's smoothing factor alpha = 1/period
calculate_ema_wilder(prices, period) ==
    LET alpha == Rat(1, period)
        y[i \in DOMAIN prices] ==
            IF i = 0 THEN prices[0]
            ELSE FAdd(FMul(FSub(Num(1), alpha), y[i - 1]), FMul(alpha, prices[i]))
    IN  [i \in DOMAIN prices |-> y[i]]

\* pd.Series(prices).ewm(span=period, adjust=False).mean():
\* y[0] = x[0], y[i] = (1 - alpha) * y[i-1] + alpha * x[i], alpha = 2/(span+1)
calculate_ema(prices, period) ==
    LET alpha == Rat(2, period + 1)
        y[i \in DOMAIN prices] ==
            IF i = 0 THEN prices[0]
            ELSE FAdd(FMul(FSub(Num(1), alpha), y[i - 1]), FMul(alpha, prices[i]))
    IN  [i \in DOMAIN prices |-> y[i]]

\* the largest k with k*k dividing m (m >= 1)
SquarePart(m) ==
    CHOOSE k \in 1..m : /\ m % (k * k) = 0
                        /\ \A j \in (k + 1)..m : m % (j * j) # 0

\* q + c * sqrt(v) for rationals q, c and a rational v >= 0.  A value that is
\* rational is returned as a rational; otherwise it is the surd
\* <<q, c', r>> = q + c' * sqrt(r) with r > 1 square-free.
Surd(q, c, v) ==
    IF IsNaN(q) \/ IsNaN(c) \/ IsNaN(v) THEN NaN
    ELSE IF v[1] = 0 \/ c[1] = 0 THEN q
    ELSE LET m == v[1] * v[2]
             k == SquarePart(m)
             r == m \div (k * k)
             cc == FMul(c, Rat(k, v[2]))
         IN  IF r = 1 THEN FAdd(q, cc) ELSE <<q, cc, r>>

\* pd.Series(prices).rolling(window=period).var(): the sample variance
\* (ddof = 1) of the trailing window; NaN until the window is full and
\* whenever the window holds fewer than two observations
rolling_var(prices, period) ==
    [i \in DOMAIN prices |->
        IF i < period - 1 \/ period < 2 THEN NaN
        ELSE LET m == MeanRange(prices, i - (period - 1), i)
                 sq == [j \in DOMAIN prices |->
                           FMul(FSub(prices[j], m), FSub(prices[j], m))]
             IN  FDiv(SumRange(sq, i - (period - 1), i), Num(period - 1))]

\* rolling_std = sqrt(rolling_var); the bands are sma +/- rolling_std * std_dev
calculate_bollinger_bands(prices, period, std_dev) ==
    LET sma == calculate_sma(prices, period)
        var == rolling_var(prices, period)
    IN  [middle |-> sma,
         upper  |-> [i \in DOMAIN prices |-> Surd(sma[i], std_dev, var[i])],
         lower  |-> [i \in DOMAIN prices |-> Surd(sma[i], FNeg(std_dev), var[i])]]

\* fault: the histogram is signal - line
calculate_macd_histogram_reversed(prices, fast_period, slow_period, signal_period) ==
    LET fast_ema == calculate_ema(prices, fast_period)
        slow_ema == calculate_ema(prices, slow_period)
        macd_line == [i \in DOMAIN prices |-> FSub(fast_ema[i], slow_ema[i])]
        macd_signal == calculate_ema(macd_line, signal_period)
        macd_histogram == [i \in DOMAIN prices |-> FSub(macd_signal[i], macd_line[i])]
    IN  [macd |-> macd_line, signal |-> macd_signal, histogram |-> macd_histogram]

calculate_macd(prices, fast_period, slow_period, signal_period) ==
    LET fast_ema == calculate_ema(prices, fast_period)
        slow_ema == calculate_ema(prices, slow_period)
        macd_line == [i \in DOMAIN prices |-> FSub(fast_ema[i], slow_ema[i])]
        macd_signal == calculate_ema(macd_line, signal_period)
        macd_histogram == [i \in DOMAIN prices |-> FSub(macd_line[i], macd_signal[i])]
    IN  [macd |-> macd_line, signal |-> macd_signal, histogram |-> macd_histogram]

\* fault: the loss keeps the sign of the change
loss_signed(delta) == IF FLt(delta, Num(0)) THEN delta ELSE Num(0)

\* np.where(deltas < 0, -deltas, 0), one element
loss_of(delta) == IF FLt(delta, Num(0)) THEN FNeg(delta) ELSE Num(0)

calculate_rsi(prices, period) ==
    LET n == Size(prices)
        \* np.diff(prices) with a 0 appended: deltas[i] = prices[i+1] - prices[i]
        deltas == [i \in DOMAIN prices |->
                      IF i < n - 1 THEN FSub(prices[i + 1], prices[i]) ELSE Num(0)]
        gains == [i \in DOMAIN prices |->
                      IF FGt(deltas[i], Num(0)) THEN deltas[i] ELSE Num(0)]
        losses == [i \in DOMAIN prices |-> loss_of(deltas[i])]
        avg_gains[i \in DOMAIN prices] ==
            IF i < period THEN Num(0)
            ELSE IF i = period THEN MeanRange(gains, 0, period - 1)
            ELSE FDiv(FAdd(FMul(avg_gains[i - 1], Num(period - 1)), gains[i]), Num(period))
        avg_losses[i \in DOMAIN prices] ==
            IF i < period THEN Num(0)
            ELSE IF i = period THEN MeanRange(losses, 0, period - 1)
            ELSE FDiv(FAdd(FMul(avg_losses[i - 1], Num(period - 1)), losses[i]), Num(period))
    IN  [i \in DOMAIN prices |->
            IF i < period THEN Num(0)
            ELSE IF avg_losses[i] = Num(0) THEN Num(100)
            ELSE FSub(Num(100),
                      FDiv(Num(100), FAdd(Num(1), FDiv(avg_gains[i], avg_losses[i]))))]

\* fault: at index 0 the previous close counts as 0
atr_tr_from_zero(high, low, close) ==
    [i \in DOMAIN close |->
        LET high_low == FSub(high[i], low[i])
            high_close_prev == IF i = 0 THEN FAbs(high[i]) ELSE FAbs(FSub(high[i], close[i - 1]))
            low_close_prev == IF i = 0 THEN FAbs(low[i]) ELSE FAbs(FSub(low[i], close[i - 1]))
        IN  FMax(high_low, FMax(high_close_prev, low_close_prev))]

\* True Range as computed by calculate_atr (index 0 has no previous close)
atr_tr(high, low, close) ==
    [i \in DOMAIN close |->
        LET high_low == FSub(high[i], low[i])
            high_close_prev == IF i = 0 THEN Num(0) ELSE FAbs(FSub(high[i], close[i - 1]))
            low_close_prev == IF i = 0 THEN Num(0) ELSE FAbs(FSub(low[i], close[i - 1]))
        IN  FMax(high_low, FMax(high_close_prev, low_close_prev))]

calculate_atr(high, low, close, period) ==
    LET tr == atr_tr(high, low, close)
        atr[i \in DOMAIN close] ==
            IF i < period - 1 THEN Num(0)
            ELSE IF i = period - 1 THEN MeanRange(tr, 0, period - 1)
            ELSE FDiv(FAdd(FMul(atr[i - 1], Num(period - 1)), tr[i]), Num(period))
    IN  [i \in DOMAIN close |-> atr[i]]

\* fault: no default for a window whose range is zero
raw_k_unguarded(c, highest_high, lowest_low) ==
    FMul(FDiv(FSub(c, lowest_low), FSub(highest_high, lowest_low)), Num(100))

\* k_raw[i]: the position of the close in the range of the window, in
\* percent; 50 if the range is zero
raw_k(c, highest_high, lowest_low) ==
    IF highest_high # lowest_low
    THEN FMul(FDiv(FSub(c, lowest_low), FSub(highest_high, lowest_low)), Num(100))
    ELSE Num(50)

calculate_stochastic(high, low, close, k_period, d_period, slowing) ==
    LET k_raw == [i \in DOMAIN close |->
                    IF i < k_period - 1 THEN Num(0)
                    ELSE raw_k(close[i], MaxRange(high, i - (k_period - 1), i),
                               MinRange(low, i - (k_period - 1), i))]
        k == IF slowing > 1
             THEN [i \in DOMAIN close |->
                      IF i < k_period + slowing - 2 THEN Num(0)
                      ELSE MeanRange(k_raw, i - (slowing - 1), i)]
             ELSE k_raw
    IN  [k |-> k, d |-> calculate_sma(k, d_period)]

calculate_wma(prices, period) ==
    LET sum_weights == (period * (period + 1)) \div 2
    IN  [i \in DOMAIN prices |->
            IF i < period - 1 THEN Num(0)
            ELSE LET weighted == [j \in 0..(period - 1) |->
                                     FMul(prices[i - (period - 1) + j], Num(j + 1))]
                 IN  FDiv(SumRange(weighted, 0, period - 1), Num(sum_weights))]

\* period = None: cumulative from the series start
calculate_vwap_cumulative(prices, volumes) ==
    LET price_volume == [i \in DOMAIN prices |-> FMul(prices[i], volumes[i])]
    IN  [i \in DOMAIN prices |->
            LET cumulative_pv == SumRange(price_volume, 0, i)
                cumulative_volume == SumRange(volumes, 0, i)
                volume_nonzero == IF FGt(cumulative_volume, Num(0))
                                  THEN cumulative_volume ELSE Num(1)
            IN  FDiv(cumulative_pv, volume_nonzero)]

\* period given: rolling over the trailing window
calculate_vwap_rolling(prices, volumes, period) ==
    LET price_volume == [i \in DOMAIN prices |-> FMul(prices[i], volumes[i])]
    IN  [i \in DOMAIN prices |->
            IF i < period - 1 THEN Num(0)
            ELSE IF FGt(SumRange(volumes, i - (period - 1), i), Num(0))
                 THEN FDiv(SumRange(price_volume, i - (period - 1), i),
                           SumRange(volumes, i - (period - 1), i))
                 ELSE prices[i]]

\* fault: the acceleration factor is not capped
next_af_uncapped(af, af_increment, af_max) == FAdd(af, af_increment)

\* af = min(af + af_increment, af_max)
next_af(af, af_increment, af_max) == FMin(FAdd(af, af_increment), af_max)

\* fault: the clamp looks at the previous bar only
clamp_previous_bar(sar, low, i) == FMin(sar, low[i - 1])

\* uptrend: sar[i] = min(sar[i], min(low[i-1], low[i-2])), one bar when i = 1
clamp_to_lows(sar, low, i) ==
    IF i >= 2 THEN FMin(sar, FMin(low[i - 1], low[i - 2]))
    ELSE FMin(sar, low[i - 1])

\* downtrend: sar[i] = max(sar[i], max(high[i-1], high[i-2])), one bar when i = 1
clamp_to_highs(sar, high, i) ==
    IF i >= 2 THEN FMax(sar, FMax(high[i - 1], high[i - 2]))
    ELSE FMax(sar, high[i - 1])

\* fault: the uptrend ends only when the whole bar is below the SAR
uptrend_broken_by_high(high, low, i, sar) == FLt(high[i], sar)

\* trend switch check of an uptrend: low[i] < sar[i]
uptrend_broken(high, low, i, sar) == FLt(low[i], sar)

\* The state carried by calculate_parabolic_sar after bar i is processed:
\* sar is the final value of sar[i]
RECURSIVE psar_state(_, _, _, _, _, _)
psar_state(high, low, i, af_start, af_increment, af_max) ==
    IF i = 0
    THEN [trend |-> 1, extreme_point |-> high[0], sar |-> low[0], af |-> af_start]
    ELSE
    LET p == psar_state(high, low, i - 1, af_start, af_increment, af_max)
        sar0 == FAdd(p.sar, FMul(p.af, FSub(p.extreme_point, p.sar)))
    IN  IF p.trend = 1
        THEN LET sar1 == clamp_to_lows(sar0, low, i)
             IN  IF uptrend_broken(high, low, i, sar1)
                 THEN [trend |-> -1, extreme_point |-> low[i],
                       sar |-> p.extreme_point, af |-> af_start]
                 ELSE IF FGt(high[i], p.extreme_point)
                 THEN [trend |-> 1, extreme_point |-> high[i], sar |-> sar1,
                       af |-> next_af(p.af, af_increment, af_max)]
                 ELSE [trend |-> 1, extreme_point |-> p.extreme_point, sar |-> sar1,
                       af |-> p.af]
        ELSE LET sar1 == clamp_to_highs(sar0, high, i)
             IN  IF FGt(high[i], sar1)
                 THEN [trend |-> 1, extreme_point |-> high[i],
                       sar |-> p.extreme_point, af |-> af_start]
                 ELSE IF FLt(low[i], p.extreme_point)
                 THEN [trend |-> -1, extreme_point |-> low[i], sar |-> sar1,
                       af |-> next_af(p.af, af_increment, af_max)]
                 ELSE [trend |-> -1, extreme_point |-> p.extreme_point, sar |-> sar1,
                       af |-> p.af]

calculate_parabolic_sar(high, low, close, af_start, af_increment, af_max) ==
    IF Size(close) < 2 THEN Zeros(Size(close))
    ELSE [i \in DOMAIN close |->
             psar_state(high, low, i, af_start, af_increment, af_max).sar]

calculate_williams_r(high, low, close, period) ==
    [i \in DOMAIN close |->
        IF i < period - 1 THEN Num(0)
        ELSE LET highest_high == MaxRange(high, i - (period - 1), i)
                 lowest_low == MinRange(low, i - (period - 1), i)
             IN  IF highest_high # lowest_low
                 THEN FMul(FDiv(FSub(highest_high, close[i]),
                                FSub(highest_high, lowest_low)), Num(-100))
                 ELSE Num(-50)]

\* (high + low + close) / 3
typical_price(high, low, close) ==
    [i \in DOMAIN close |-> FDiv(FAdd(FAdd(high[i], low[i]), close[i]), Num(3))]

calculate_cci(high, low, close, period) ==
    LET tp == typical_price(high, low, close)
    IN  [i \in DOMAIN close |->
            IF i < period - 1 THEN Num(0)
            ELSE LET tp_sma == MeanRange(tp, i - (period - 1), i)
                     dev == [j \in DOMAIN close |-> FAbs(FSub(tp[j], tp_sma))]
                     mean_dev == MeanRange(dev, i - (period - 1), i)
                 IN  IF mean_dev = Num(0) THEN Num(0)
                     ELSE FDiv(FSub(tp[i], tp_sma), FMul(Rat(15, 1000), mean_dev))]

calculate_mfi(high, low, close, volume, period) ==
    LET tp == typical_price(high, low, close)
        money_flow == [i \in DOMAIN close |-> FMul(tp[i], volume[i])]
        price_shift == [i \in DOMAIN close |-> IF i = 0 THEN Num(0) ELSE tp[i - 1]]
        positive_flow == [i \in DOMAIN close |->
                            IF i >= 1 /\ FGt(tp[i], price_shift[i])
                            THEN money_flow[i] ELSE Num(0)]
        negative_flow == [i \in DOMAIN close |->
                            IF i >= 1 /\ ~FGt(tp[i], price_shift[i])
                                      /\ FLt(tp[i], price_shift[i])
                            THEN money_flow[i] ELSE Num(0)]
    IN  [i \in DOMAIN close |->
            IF i < period THEN Num(0)
            ELSE LET positive_sum == SumRange(positive_flow, i - (period - 1), i)
                     negative_sum == SumRange(negative_flow, i - (period - 1), i)
                 IN  IF negative_sum = Num(0) THEN Num(100)
                     ELSE FSub(Num(100),
                               FDiv(Num(100),
                                    FAdd(Num(1), FDiv(positive_sum, negative_sum))))]

\* fault: the running total starts at the volume of the first bar
calculate_obv_from_first_volume(close, volume) ==
    LET obv[i \in DOMAIN close] ==
            IF i = 0 THEN volume[0]
            ELSE IF FGt(close[i], close[i - 1]) THEN FAdd(obv[i - 1], volume[i])
            ELSE IF FLt(close[i], close[i - 1]) THEN FSub(obv[i - 1], volume[i])
            ELSE obv[i - 1]
    IN  [i \in DOMAIN close |-> obv[i]]

calculate_obv(close, volume) ==
    LET obv[i \in DOMAIN close] ==
            IF i = 0 THEN Num(0)
            ELSE IF FGt(close[i], close[i - 1]) THEN FAdd(obv[i - 1], volume[i])
            ELSE IF FLt(close[i], close[i - 1]) THEN FSub(obv[i - 1], volume[i])
            ELSE obv[i - 1]
    IN  [i \in DOMAIN close |-> obv[i]]

\* utils.calculate_adx, Wilder's smoothing of one series: the sum of the
\* first `period` values at index `period`, then prev - prev/period + x[i]
adx_smoothed(x, period) ==
    LET s[i \in DOMAIN x] ==
            IF i < period THEN Num(0)
            ELSE IF i = period THEN SumRange(x, 1, period)
            ELSE FAdd(FSub(s[i - 1], FDiv(s[i - 1], Num(period))), x[i])
    IN  [i \in DOMAIN x |-> s[i]]

\* utils.calculate_adx, a directional indicator: 100 * smoothed_dm / smoothed_tr
adx_di(smoothed_dm, smoothed_tr, period) ==
    [i \in DOMAIN smoothed_tr |->
        IF i < period \/ smoothed_tr[i] = Num(0) THEN Num(0)
        ELSE FDiv(FMul(Num(100), smoothed_dm[i]), smoothed_tr[i])]

\* utils.calculate_adx, the directional index: 100 * |+DI - -DI| / (+DI + -DI)
adx_dx(plus_di, minus_di, period) ==
    [i \in DOMAIN plus_di |->
        IF i < period \/ FAdd(plus_di[i], minus_di[i]) = Num(0) THEN Num(0)
        ELSE FDiv(FMul(Num(100), FAbs(FSub(plus_di[i], minus_di[i]))),
                  FAdd(plus_di[i], minus_di[i]))]

\* utils.calculate_adx, the ADX line: mean of dx[period .. 2*period-1] at
\* index 2*period-1, then ((period-1) * prev + dx[i]) / period
adx_line(dx, period) ==
    LET n == Size(dx)
        a[i \in DOMAIN dx] ==
            IF n < 2 * period \/ i < 2 * period - 1 THEN Num(0)
            ELSE IF i = 2 * period - 1 THEN MeanRange(dx, period, 2 * period - 1)
            ELSE FDiv(FAdd(FMul(Num(period - 1), a[i - 1]), dx[i]), Num(period))
    IN  [i \in DOMAIN dx |-> a[i]]

\* utils.calculate_adx, +DM: the rise of the high when it exceeds the fall
\* of the low and is positive
adx_plus_dm(high, low) ==
    [i \in DOMAIN high |->
        IF i = 0 THEN Num(0)
        ELSE LET high_diff == FSub(high[i], high[i - 1])
                 low_diff == FSub(low[i - 1], low[i])
             IN  IF FGt(high_diff, low_diff) /\ FGt(high_diff, Num(0))
                 THEN high_diff ELSE Num(0)]

\* utils.calculate_adx, -DM: the fall of the low when it exceeds the rise
\* of the high and is positive
adx_minus_dm(high, low) ==
    [i \in DOMAIN high |->
        IF i = 0 THEN Num(0)
        ELSE LET high_diff == FSub(high[i], high[i - 1])
                 low_diff == FSub(low[i - 1], low[i])
             IN  IF FGt(low_diff, high_diff) /\ FGt(low_diff, Num(0))
                 THEN low_diff ELSE Num(0)]

\* fault: the true range is the bar's own range, gaps from the previous
\* close are ignored
adx_tr_range_only(high, low, close) ==
    [i \in DOMAIN close |->
        IF i = 0 THEN Num(0) ELSE FSub(high[i], low[i])]

\* utils.calculate_adx, TR from bar 1 on (tr[0] stays 0)
adx_tr(high, low, close) ==
    [i \in DOMAIN close |->
        IF i = 0 THEN Num(0)
        ELSE FMax(FSub(high[i], low[i]),
                  FMax(FAbs(FSub(high[i], close[i - 1])),
                       FAbs(FSub(low[i], close[i - 1]))))]

\* utils.calculate_adx: returns (adx, plus_di, minus_di)
calculate_adx(high, low, close, period) ==
    LET smoothed_tr == adx_smoothed(adx_tr(high, low, close), period)
        plus_di == adx_di(adx_smoothed(adx_plus_dm(high, low), period), smoothed_tr, period)
        minus_di == adx_di(adx_smoothed(adx_minus_dm(high, low), period), smoothed_tr, period)
    IN  [adx |-> adx_line(adx_dx(plus_di, minus_di, period), period),
         plus_di |-> plus_di, minus_di |-> minus_di]

\* the indices at which a function assigns its seed values: avg_gains[period]
\* (RSI), atr[period-1] (ATR), smoothed_tr[period] and, under its own length
\* test, adx[2*period-1] (ADX)
seed_indices(fn, period, n) ==
    CASE fn = "rsi" -> {period}
      [] fn = "atr" -> {period - 1}
      [] fn = "adx" -> {period} \cup (IF n >= 2 * period THEN {2 * period - 1} ELSE {})
      [] OTHER -> {}

\* the slices <<first, last>> a function reads and the pairs <<i-1, i>> its
\* smoothing loops visit, for a series of n bars
windows_read(fn, period, n) ==
    CASE fn = "rsi" -> {<<0, period - 1>>} \cup {<<i - 1, i>> : i \in (period + 1)..(n - 1)}
      [] fn = "atr" -> {<<0, period - 1>>} \cup {<<i - 1, i>> : i \in period..(n - 1)}
      [] fn = "adx" -> {<<1, period>>} \cup {<<i - 1, i>> : i \in (period + 1)..(n - 1)}
                       \cup (IF n >= 2 * period
                             THEN {<<period, 2 * period - 1>>}
                                  \cup {<<i - 1, i>> : i \in (2 * period)..(n - 1)}
                             ELSE {})
      [] OTHER -> {}

(***************************************************************************)
(* Indicator orchestrator (utils.add_indicators)                           *)
(*                                                                         *)
(* An indicator request is a dict: a function with the optional keys       *)
(* "type" (a string) and "params" (a dict of parameter values).            *)
(***************************************************************************)
\* program defaults of params.get(name, default)
DefaultPeriod20 == 20

DefaultPeriod14 == 14

DefaultFastPeriod == 12

DefaultSlowPeriod == 26

DefaultSignalPeriod == 9

DefaultDPeriod == 3

DefaultSlowing == 1

DefaultStdDev == Num(2)

DefaultAfStart == Rat(2, 100)

DefaultAfIncrement == Rat(2, 100)

DefaultAfMax == Rat(2, 10)

\* fault: the type string is compared as written
Lower_as_written(s) == s

\* str.lower() on the type strings that occur in requests
Lower(s) ==
    CASE s = "SMA" -> "sma"
      [] s = "Ma" -> "ma"
      [] s = "EMA" -> "ema"
      [] s = "RSI" -> "rsi"
      [] s = "BB" -> "bb"
      [] s = "BollingerBands" -> "bollingerbands"
      [] s = "Stochastic" -> "stochastic"
      [] s = "StochasticOscillator" -> "stochasticoscillator"
      [] s = "PSAR" -> "psar"
      [] s = "ParabolicSAR" -> "parabolicsar"
      [] s = "WilliamsR" -> "williamsr"
      [] s = "Williams%R" -> "williams%r"
      [] s = "PercentR" -> "percentr"
      [] s = "FooBar" -> "foobar"
      [] s = "ATR" -> "atr"
      [] s = "Bollinger" -> "bollinger"
      [] s = "MACD" -> "macd"
      [] OTHER -> s

\* len(result_df): every column has the length of the index
NRows(frame) == Size(frame[<<"close">>])

\* fault: an existing column is kept
SetCol_keep_existing(frame, name, values) ==
    [c \in DOMAIN frame \cup {name} |-> IF c \in DOMAIN frame THEN frame[c] ELSE values]

\* result_df[name] = values: replaces the column if it exists, appends it
\* otherwise
SetCol(frame, name, values) ==
    [c \in DOMAIN frame \cup {name} |-> IF c = name THEN values ELSE frame[c]]

\* outcomes of one pass through the loop body
Applied(frame) == [raised |-> FALSE, df |-> frame, out |-> <<>>]

\* fault: the else branch of a gate prints nothing
Skipped_silent(frame, label) == [raised |-> FALSE, df |-> frame, out |-> <<>>]

\* the else branch of a gate: print("WARNING: Not enough data points for ...")
Skipped(frame, label) ==
    [raised |-> FALSE, df |-> frame, out |-> << <<"WARNING", label>> >>]

Raised(frame) == [raised |-> TRUE, df |-> frame, out |-> <<>>]

\* fault: a type that matches no branch raises
no_branch_raises(frame) == Raised(frame)

\* no branch of the if/elif chain matches indicator_type (there is no else):
\* the loop body ends without touching result_df
no_branch(frame) == Applied(frame)

\* fault: the gate lets a series through that is one bar short
enough_data_one_short(n, minimum) == n >= minimum - 1

\* fault: the gate demands one bar more
enough_data_strict(n, minimum) == n > minimum

\* the gate of a branch: len(result_df) >= minimum
enough_data(n, minimum) == n >= minimum

\* One iteration of `for indicator in indicators:`.  The loop body has no
\* try/except: an exception raised by a library call leaves add_indicators.
\* pandas raises ValueError for rolling(window < 0) and for ewm(span < 1).
ProcessIndicator(frame, indicator) ==
    LET indicator_type == Lower(Get(indicator, "type", ""))
        params == Get(indicator, "params", <<>>)
        n == NRows(frame)
        close == frame[<<"close">>]
        high == frame[<<"high">>]
        low == frame[<<"low">>]
        volume == frame[<<"volume">>]
    IN
    IF indicator_type \in {"sma", "ma"} THEN
        LET period == Get(params, "period", DefaultPeriod20)
        IN  IF enough_data(n, period)
            THEN IF period < 0 THEN Raised(frame)
                 ELSE Applied(SetCol(frame, <<"sma", period>>, calculate_sma(close, period)))
            ELSE Skipped(frame, "SMA")
    ELSE IF indicator_type \in {"ema"} THEN
        LET period == Get(params, "period", DefaultPeriod20)
        IN  IF enough_data(n, period)
            THEN IF period < 1 THEN Raised(frame)
                 ELSE Applied(SetCol(frame, <<"ema", period>>, calculate_ema(close, period)))
            ELSE Skipped(frame, "EMA")
    ELSE IF indicator_type \in {"bb", "bollingerbands"} THEN
        LET period == Get(params, "period", DefaultPeriod20)
            std_dev == Get(params, "stdDev", DefaultStdDev)
        IN  IF enough_data(n, period)
            THEN IF period < 0 THEN Raised(frame)
                 ELSE LET bb == calculate_bollinger_bands(close, period, std_dev)
                      IN  Applied(SetCol(SetCol(SetCol(frame,
                                <<"bb_middle", period>>, bb.middle),
                                <<"bb_upper", period>>, bb.upper),
                                <<"bb_lower", period>>, bb.lower))
            ELSE Skipped(frame, "BB")
    ELSE IF indicator_type \in {"macd"} THEN
        LET fast_period == Get(params, "fastPeriod", DefaultFastPeriod)
            slow_period == Get(params, "slowPeriod", DefaultSlowPeriod)
            signal_period == Get(params, "signalPeriod", DefaultSignalPeriod)
        IN  IF enough_data(n, slow_period + signal_period)
            THEN IF fast_period < 1 \/ slow_period < 1 \/ signal_period < 1
                 THEN Raised(frame)
                 ELSE LET macd == calculate_macd(close, fast_period, slow_period,
                                                 signal_period)
                      IN  Applied(SetCol(SetCol(SetCol(frame,
                                <<"macd_line">>, macd.macd),
                                <<"macd_signal">>, macd.signal),
                                <<"macd_histogram">>, macd.histogram))
            ELSE Skipped(frame, "MACD")
    ELSE IF indicator_type \in {"rsi"} THEN
        LET period == Get(params, "period", DefaultPeriod14)
        IN  IF enough_data(n, period + 1)
            THEN Applied(SetCol(frame, <<"rsi">>, calculate_rsi(close, period)))
            ELSE Skipped(frame, "RSI")
    ELSE IF indicator_type \in {"atr"} THEN
        LET period == Get(params, "period", DefaultPeriod14)
        IN  IF enough_data(n, period + 1)
            THEN Applied(SetCol(frame, <<"atr">>, calculate_atr(high, low, close, period)))
            ELSE Skipped(frame, "ATR")
    ELSE IF indicator_type \in {"stochastic", "stoch", "stochasticoscillator"} THEN
        LET k_period == Get(params, "kPeriod", DefaultPeriod14)
            d_period == Get(params, "dPeriod", DefaultDPeriod)
            slowing == Get(params, "slowing", DefaultSlowing)
        IN  IF enough_data(n, k_period + d_period)
            THEN LET stoch == calculate_stochastic(high, low, close, k_period,
                                                   d_period, slowing)
                 IN  Applied(SetCol(SetCol(frame, <<"stoch_k">>, stoch.k),
                                    <<"stoch_d">>, stoch.d))
            ELSE Skipped(frame, "Stochastic")
    ELSE IF indicator_type \in {"wma"} THEN
        LET period == Get(params, "period", DefaultPeriod20)
        IN  IF enough_data(n, period)
            THEN Applied(SetCol(frame, <<"wma", period>>, calculate_wma(close, period)))
            ELSE Skipped(frame, "WMA")
    ELSE IF indicator_type \in {"vwap"} THEN
        IF n > 0
        THEN Applied(SetCol(frame, <<"vwap">>,
                 IF "period" \in DOMAIN params
                 THEN calculate_vwap_rolling(close, volume, params["period"])
                 ELSE calculate_vwap_cumulative(close, volume)))
        ELSE Skipped(frame, "VWAP")
    ELSE IF indicator_type \in {"psar", "parabolicsar"} THEN
        LET af_start == Get(params, "afStart", DefaultAfStart)
            af_increment == Get(params, "afIncrement", DefaultAfIncrement)
            af_max == Get(params, "afMax", DefaultAfMax)
        IN  IF enough_data(n, 2)
            THEN Applied(SetCol(frame, <<"psar">>,
                     calculate_parabolic_sar(high, low, close, af_start,
                                             af_increment, af_max)))
            ELSE Skipped(frame, "Parabolic SAR")
    ELSE IF indicator_type \in {"williamsr", "williams%r", "percentr"} THEN
        LET period == Get(params, "period", DefaultPeriod14)
        IN  IF enough_data(n, period)
            THEN Applied(SetCol(frame, <<"williams_r">>,
                     calculate_williams_r(high, low, close, period)))
            ELSE Skipped(frame, "Williams %R")
    ELSE IF indicator_type \in {"cci"} THEN
        LET period == Get(params, "period", DefaultPeriod20)
        IN  IF enough_data(n, period)
            THEN Applied(SetCol(frame, <<"cci">>, calculate_cci(high, low, close, period)))
            ELSE Skipped(frame, "CCI")
    ELSE IF indicator_type \in {"mfi"} THEN
        LET period == Get(params, "period", DefaultPeriod14)
        IN  IF enough_data(n, period + 1)
            THEN Applied(SetCol(frame, <<"mfi">>,
                     calculate_mfi(high, low, close, volume, period)))
            ELSE Skipped(frame, "MFI")
    ELSE IF indicator_type \in {"obv"} THEN
        IF enough_data(n, 2)
        THEN Applied(SetCol(frame, <<"obv">>, calculate_obv(close, volume)))
        ELSE Skipped(frame, "OBV")
    ELSE IF indicator_type \in {"adx"} THEN
        LET period == Get(params, "period", DefaultPeriod14)
        IN  IF enough_data(n, 2 * period)
            THEN LET adx_result == calculate_adx(high, low, close, period)
                 IN  Applied(SetCol(SetCol(SetCol(frame,
                           <<"adx">>, adx_result.adx),
                           <<"plus_di">>, adx_result.plus_di),
                           <<"minus_di">>, adx_result.minus_di))
            ELSE Skipped(frame, "ADX")
    ELSE no_branch(frame)

(***************************************************************************)
(* Gap filler: result_df.ffill().bfill(), then fillna(0) if NaN remains    *)
(***************************************************************************)
\* DataFrame.ffill on one column: the last valid value at or before i
ffill(col) ==
    LET f[i \in DOMAIN col] ==
            IF ~IsNaN(col[i]) THEN col[i]
            ELSE IF i = 0 THEN NaN ELSE f[i - 1]
    IN  [i \in DOMAIN col |-> f[i]]

\* DataFrame.bfill on one column: the next valid value at or after i
bfill(col) ==
    LET n == Size(col)
        b[i \in DOMAIN col] ==
            IF ~IsNaN(col[i]) THEN col[i]
            ELSE IF i = n - 1 THEN NaN ELSE b[i + 1]
    IN  [i \in DOMAIN col |-> b[i]]

\* DataFrame.fillna(0) on one column
fillna0(col) == [i \in DOMAIN col |-> IF IsNaN(col[i]) THEN Num(0) ELSE col[i]]

\* result_df.isna().any() over the columns
HasNaN(frame) == \E c \in DOMAIN frame : \E i \in DOMAIN frame[c] : IsNaN(frame[c][i])

\* fault: ffill(limit=1).bfill(limit=1), each gap cell takes the value of
\* a neighbour only, and no fillna(0)
FillGaps_limit_one(frame) ==
    LET f == [c \in DOMAIN frame |->
                 [i \in DOMAIN frame[c] |->
                     IF IsNaN(frame[c][i]) /\ i > 0 THEN frame[c][i - 1] ELSE frame[c][i]]]
    IN  [c \in DOMAIN f |->
            [i \in DOMAIN f[c] |->
                IF IsNaN(f[c][i]) /\ i < Size(f[c]) - 1 THEN f[c][i + 1] ELSE f[c][i]]]

\* fault: no fillna(0) after ffill().bfill()
FillGaps_no_zero(frame) == [c \in DOMAIN frame |-> bfill(ffill(frame[c]))]

\* fault: bfill() before ffill()
FillGaps_bfill_first(frame) ==
    LET filled == [c \in DOMAIN frame |-> ffill(bfill(frame[c]))]
    IN  [c \in DOMAIN filled |-> fillna0(filled[c])]

\* result_df = result_df.ffill().bfill(); if a NaN is left, result_df.fillna(0)
FillGaps(frame) ==
    LET filled == [c \in DOMAIN frame |-> bfill(ffill(frame[c]))]
    IN  IF HasNaN(filled)
        THEN [c \in DOMAIN filled |-> fillna0(filled[c])]
        ELSE filled

\* the whole call: the loop over the requests from position k on, then the
\* gap filler; [raised |-> TRUE] when an exception leaves the function
RECURSIVE RunLoop(_, _, _)
RunLoop(frame, indicators, k) ==
    IF k > Len(indicators) THEN [raised |-> FALSE, df |-> frame]
    ELSE LET r == ProcessIndicator(frame, indicators[k])
         IN  IF r.raised THEN [raised |-> TRUE, df |-> frame]
             ELSE RunLoop(r.df, indicators, k + 1)

add_indicators(frame, indicators) ==
    LET r == RunLoop(frame, indicators, 1)
    IN  IF r.raised THEN [raised |-> TRUE]
        ELSE [raised |-> FALSE, df |-> FillGaps(r.df)]

(***************************************************************************)
(* Inputs of the model                                                     *)
(***************************************************************************)
\* longest series, longest request list
MaxBars == 3

MaxReqs == 2

\* Bar i of the series of a given shape.  Prices are small integers; the
\* volume of a bar may be absent (NaN), as when a candle of the JSON input
\* has no "volume" key while others have one.
Bar(shape, i) ==
    CASE shape = "zigzag" ->
            LET c == IF i % 2 = 0 THEN 2 ELSE 1
            IN  [open |-> Num(2), high |-> Num(c + 1), low |-> Num(c - 1),
                 close |-> Num(c), volume |-> IF i = 1 THEN NaN ELSE Num(i + 2)]
      [] shape = "rising" ->
            [open |-> Num(i + 1), high |-> Num(i + 3), low |-> Num(i + 1),
             close |-> Num(i + 2), volume |-> IF i = 0 THEN NaN ELSE Num(i)]
      [] shape = "flat" ->
            [open |-> Num(2), high |-> Num(2), low |-> Num(2),
             close |-> Num(2), volume |-> Num(0)]

Shapes == {"zigzag", "rising", "flat"}

OHLCV == {<<"open">>, <<"high">>, <<"low">>, <<"close">>, <<"volume">>}

\* the DataFrame of the first n bars of a shape
SeriesFrame(shape, n) ==
    [c \in OHLCV |-> [i \in 0..(n - 1) |-> Bar(shape, i)[c[1]]]]

\* the requests that may occur in a list
Catalog ==
    { [type |-> "sma", params |-> [period |-> 2]],
      [type |-> "SMA", params |-> [period |-> 3]],
      [type |-> "Ma", params |-> <<>>],
      [type |-> "sma", params |-> [period |-> -1]],
      [type |-> "ema", params |-> [period |-> 2]],
      [type |-> "ema", params |-> [period |-> 3]],
      [type |-> "wma", params |-> [period |-> 2]],
      [type |-> "wma", params |-> [period |-> 3]],
      [type |-> "bb", params |-> [period |-> 2, stdDev |-> Num(2)]],
      [type |-> "bb", params |-> [period |-> 2, stdDev |-> Num(1)]],
      [type |-> "BollingerBands", params |-> [period |-> 1]],
      [type |-> "macd", params |-> [fastPeriod |-> 1, slowPeriod |-> 2, signalPeriod |-> 1]],
      [type |-> "macd", params |-> [fastPeriod |-> 1, slowPeriod |-> 1, signalPeriod |-> 2]],
      [type |-> "rsi", params |-> [period |-> 1]],
      [type |-> "RSI", params |-> [period |-> 2]],
      [type |-> "atr", params |-> [period |-> 2]],
      [type |-> "stoch", params |-> [kPeriod |-> 1, dPeriod |-> 2]],
      [type |-> "vwap", params |-> <<>>],
      [type |-> "vwap", params |-> [period |-> 2]],
      [type |-> "psar", params |-> <<>>],
      [type |-> "williamsr", params |-> [period |-> 2]],
      [type |-> "cci", params |-> [period |-> 2]],
      [type |-> "mfi", params |-> [period |-> 2]],
      [type |-> "obv"],
      [type |-> "adx", params |-> [period |-> 1]],
      [type |-> "FooBar", params |-> [period |-> 2]],
      [params |-> [period |-> 2]] }

RequestLists == UNION {[1..m -> Catalog] : m \in 0..MaxReqs}

(***************************************************************************)
(* State                                                                   *)
(***************************************************************************)
VARIABLES
    heap,        \* the DataFrame objects: object name -> DataFrame
    indicators,  \* the request list passed to add_indicators
    result_df,   \* add_indicators' local name: the object it is bound to
    k,           \* position in `for indicator in indicators` (1-based)
    pc,          \* add_indicators: "idle", "call", "loop", "done" (returned)
                 \* or "raised" (left by an exception)
    stderr,      \* the diagnostic lines add_indicators printed to sys.stderr
    entry,       \* the running program: "generate_candlestick",
                 \* "generate_indicators", or "none" for a direct call
    data,        \* the JSON request read by main()
    main_pc,     \* main(): "load", "check", "volume", "indicators", "called",
                 \* "render", "exited"; "none" for a direct call
    main_df,     \* main()'s local name df: the object it is bound to
    df_index,    \* the index of main()'s DataFrame
    stdout,      \* what was written to sys.stdout.buffer
    exit_code,   \* the process exit status, -1 while the program runs
    addplots,    \* the service's add_indicators: the plots appended so far
    processed    \* the service's add_indicators: its counter `processed`

addvars == <<heap, indicators, result_df, k, pc, stderr>>

mainvars == <<entry, data, main_pc, main_df, df_index, stdout, exit_code>>

httpvars == <<addplots, processed>>

vars == <<heap, indicators, result_df, k, pc, stderr,
          entry, data, main_pc, main_df, df_index, stdout, exit_code,
          addplots, processed>>

\* fault: result_df = df, the same object under a second name
df_no_copy(h) == [ref |-> "df", heap |-> h]

\* result_df = df.copy(): a new object with the contents of df
df_copy(h) ==
    [ref |-> "result_df",
     heap |-> [o \in DOMAIN h \cup {"result_df"} |->
                  IF o = "result_df" THEN h["df"] ELSE h[o]]]

\* a direct call add_indicators(df, indicators)
Init ==
    /\ \E shape \in Shapes, n \in 1..MaxBars :
           heap = [o \in {"df"} |-> SeriesFrame(shape, n)]
    /\ indicators \in RequestLists
    /\ result_df = "none"
    /\ k = 0
    /\ pc = "call"
    /\ stderr = <<>>
    /\ entry = "none"
    /\ data = <<>>
    /\ main_pc = "none"
    /\ main_df = "none"
    /\ df_index = <<>>
    /\ stdout = <<>>
    /\ exit_code = -1
    /\ addplots = <<>>
    /\ processed = 0

\* add_indicators is entered: result_df = df.copy()
Enter ==
    /\ pc = "call"
    /\ LET c == df_copy(heap)
       IN  /\ heap' = c.heap
           /\ result_df' = c.ref
    /\ k' = 1
    /\ pc' = "loop"
    /\ UNCHANGED <<indicators, stderr>>
    /\ UNCHANGED mainvars
    /\ UNCHANGED httpvars

\* one iteration of the loop; assigning a column mutates the object that
\* result_df is bound to
Iterate ==
    /\ pc = "loop"
    /\ k <= Len(indicators)
    /\ LET r == ProcessIndicator(heap[result_df], indicators[k])
       IN  /\ heap' = [heap EXCEPT ![result_df] = r.df]
           /\ stderr' = stderr
                        \o << <<"Processing indicator",
                                Lower(Get(indicators[k], "type", ""))>> >>
                        \o r.out
           /\ pc' = IF r.raised THEN "raised" ELSE "loop"
           /\ k' = IF r.raised THEN k ELSE k + 1
    /\ UNCHANGED <<indicators, result_df>>
    /\ UNCHANGED mainvars
    /\ UNCHANGED httpvars

\* the loop is over: result_df = result_df.ffill().bfill() (and fillna(0))
\* binds the name to a new object "filled", which is returned.  The object
\* the name was bound to during the loop stays in the heap of the model.
FillAndReturn ==
    /\ pc = "loop"
    /\ k > Len(indicators)
    /\ heap' = [o \in DOMAIN heap \cup {"filled"} |->
                   IF o = "filled" THEN FillGaps(heap[result_df]) ELSE heap[o]]
    /\ result_df' = "filled"
    /\ stderr' = stderr \o << <<"Filling NaN values in indicator columns", "">> >>
    /\ pc' = "done"
    /\ UNCHANGED <<indicators, k>>
    /\ UNCHANGED mainvars
    /\ UNCHANGED httpvars

Next == Enter \/ Iterate \/ FillAndReturn

Spec == Init /\ [][Next]_vars

(***************************************************************************)
(* Direct calls with one request on a larger family of series: every       *)
(* sequence of bars with lows in LibPrices, in four bar profiles.          *)
(***************************************************************************)
\* longest series and highest low of the family
MaxLibBars == 4

MaxLibPrice == 3

LibProfiles == {"point", "closeLow", "closeHigh", "mixed", "wide"}

\* bar i with the given low: low <= close <= high in every profile
LibBar(profile, lo, i) ==
    LET width == CASE profile = "point" -> 0
                   [] profile = "mixed" -> i % 2
                   [] profile = "wide" -> 2 * (i % 2)
                   [] OTHER -> 1
        c == CASE profile = "closeLow" -> lo
               [] profile = "wide" -> lo + (i % 2)
               [] OTHER -> lo + width
    IN  [open |-> Num(lo), high |-> Num(lo + width), low |-> Num(lo),
         close |-> Num(c), volume |-> Num(lo - 1)]

LibFrame(profile, lows) ==
    [c \in OHLCV |-> [i \in DOMAIN lows |-> LibBar(profile, lows[i], i)[c[1]]]]

LibCatalog ==
    { [type |-> "sma", params |-> [period |-> 1]],
      [type |-> "sma", params |-> [period |-> 2]],
      [type |-> "sma", params |-> [period |-> 3]],
      [type |-> "sma", params |-> [period |-> 4]],
      [type |-> "rsi", params |-> [period |-> 1]],
      [type |-> "rsi", params |-> [period |-> 2]],
      [type |-> "rsi", params |-> [period |-> 3]],
      [type |-> "stochastic", params |-> [kPeriod |-> 1, dPeriod |-> 1]],
      [type |-> "stochastic", params |-> [kPeriod |-> 2, dPeriod |-> 2]],
      [type |-> "stochastic", params |-> [kPeriod |-> 1, dPeriod |-> 2, slowing |-> 2]],
      [type |-> "stochastic", params |-> [kPeriod |-> 2, dPeriod |-> 1, slowing |-> 3]],
      [type |-> "ema", params |-> [period |-> 1]],
      [type |-> "ema", params |-> [period |-> 2]],
      [type |-> "ema", params |-> [period |-> 3]],
      [type |-> "macd", params |-> [fastPeriod |-> 1, slowPeriod |-> 2, signalPeriod |-> 1]],
      [type |-> "macd", params |-> [fastPeriod |-> 1, slowPeriod |-> 2, signalPeriod |-> 2]],
      [type |-> "macd", params |-> [fastPeriod |-> 2, slowPeriod |-> 3, signalPeriod |-> 1]],
      [type |-> "atr", params |-> [period |-> 1]],
      [type |-> "atr", params |-> [period |-> 2]],
      [type |-> "atr", params |-> [period |-> 3]],
      [type |-> "adx", params |-> [period |-> 1]],
      [type |-> "adx", params |-> [period |-> 2]],
      [type |-> "obv"],
      [type |-> "psar", params |-> <<>>],
      [type |-> "psar", params |-> [afStart |-> Rat(1, 2), afIncrement |-> Rat(1, 4),
                                    afMax |-> Rat(5, 8)]],
      [type |-> "psar", params |-> [afStart |-> Rat(1, 2), afIncrement |-> Rat(-1, 4),
                                    afMax |-> Rat(5, 8)]] }

\* a direct call add_indicators(df, [request])
LibInit ==
    /\ \E profile \in LibProfiles, n \in 1..MaxLibBars :
           \E lows \in [0..(n - 1) -> 1..MaxLibPrice] :
               heap = [o \in {"df"} |-> LibFrame(profile, lows)]
    /\ \E req \in LibCatalog : indicators = <<req>>
    /\ result_df = "none"
    /\ k = 0
    /\ pc = "call"
    /\ stderr = <<>>
    /\ entry = "none"
    /\ data = <<>>
    /\ main_pc = "none"
    /\ main_df = "none"
    /\ df_index = <<>>
    /\ stdout = <<>>
    /\ exit_code = -1
    /\ addplots = <<>>
    /\ processed = 0

SpecLib == LibInit /\ [][Next]_vars

(***************************************************************************)
(* The programs generate_candlestick.py and generate_indicators.py: main() *)
(* reads a JSON request {"candles": [...], "indicators": [...]}, builds    *)
(* the DataFrame, validates it, calls add_indicators and writes a PNG image *)
(* to stdout.  A candle is a dict; a field it lacks is an absent key.      *)
(***************************************************************************)
\* most candles of a request, largest timestamp
MaxCandles == 2

MaxTime == 2

Programs == {"generate_candlestick", "generate_indicators"}

Fields == {"time", "open", "high", "low", "close", "volume"}

\* candle i of a shape with the given fields and timestamp; a field whose
\* value the shape leaves undefined is an absent key as well
Candle(shape, i, fields, t) ==
    LET bar == Bar(shape, i)
        present == {f \in fields : f = "time" \/ ~IsNaN(bar[f])}
    IN  [f \in present |-> IF f = "time" THEN Num(t) ELSE bar[f]]

\* the request lists of the requests to main()
MainRequestLists ==
    { <<>>,
      << [type |-> "sma", params |-> [period |-> 2]] >>,
      << [type |-> "sma", params |-> [period |-> -1]] >>,
      << [type |-> "rsi", params |-> [period |-> 1]],
         [type |-> "FooBar", params |-> [period |-> 2]] >> }

\* pd.DataFrame(candles): one column per key that occurs in a candle, NaN
\* where a candle lacks the key; no columns for an empty list
DataFrame(candles) ==
    LET columns == UNION {DOMAIN candles[j] : j \in 1..Len(candles)}
    IN  [c \in {<<f>> : f \in columns} |->
            [i \in 0..(Len(candles) - 1) |->
                IF c[1] \in DOMAIN candles[i + 1] THEN candles[i + 1][c[1]] ELSE NaN]]

\* pd.to_datetime of an integer timestamp, in nanoseconds since the epoch.
\* df['time'].iloc[0] of an integer column is a numpy.int64, which is no
\* instance of (int, float): both programs take the branch
\* pd.to_datetime(df['time']) without a unit.
to_datetime(t) == t[1]

\* the rows of a frame in the order p: row i of the result is row p[i]
Reindex(frame, p) == [c \in DOMAIN frame |-> [i \in DOMAIN p |-> frame[c][p[i]]]]

\* df.sort_index(): the orders of the rows in which the index ascends.  The
\* default sort is not stable: rows with equal timestamps come in any order.
SortOrders(index) ==
    {p \in [DOMAIN index -> DOMAIN index] :
        /\ \A a, b \in DOMAIN index : a /= b => p[a] /= p[b]
        /\ \A a, b \in DOMAIN index : a < b => index[p[a]] <= index[p[b]]}

\* ~df.index.duplicated(keep='first'): the rows to keep, in their order
FirstOccurrences(index) ==
    LET keep == {i \in DOMAIN index : \A j \in DOMAIN index : j < i => index[j] /= index[i]}
    IN  [r \in 0..(Cardinality(keep) - 1) |->
            CHOOSE i \in keep : Cardinality({j \in keep : j < i}) = r]

\* generate_candlestick only: df.ffill().bfill() if a column has a NaN
FillInput(frame) == [c \in DOMAIN frame |-> bfill(ffill(frame[c]))]

\* fault: close is not among the required columns
required_columns_without_close == {"open", "high", "low"}

required_columns == {"open", "high", "low", "close"}

\* a request to main()
MainInit ==
    /\ entry \in Programs
    /\ \E shape \in Shapes, n \in 0..MaxCandles, fields \in SUBSET Fields :
         \E times \in [0..(n - 1) -> 1..MaxTime] :
           LET candles == [j \in 1..n |-> Candle(shape, j - 1, fields, times[j - 1])]
           IN  \/ data = [candles |-> candles]
               \/ \E list \in MainRequestLists :
                      data = [candles |-> candles, indicators |-> list]
    /\ heap = <<>>
    /\ indicators = <<>>
    /\ result_df = "none"
    /\ k = 0
    /\ pc = "idle"
    /\ stderr = <<>>
    /\ main_pc = "load"
    /\ main_df = "none"
    /\ df_index = <<>>
    /\ stdout = <<>>
    /\ exit_code = -1
    /\ addplots = <<>>
    /\ processed = 0

\* df = pd.DataFrame(candles) and the index: with a 'time' column the
\* datetime index (generate_candlestick sorts it and drops the later rows of
\* a duplicated timestamp, then fills NaN cells), else the row numbers
MainLoad ==
    /\ main_pc = "load"
    /\ LET df == DataFrame(Get(data, "candles", <<>>))
           index == [i \in DOMAIN df[<<"time">>] |-> to_datetime(df[<<"time">>][i])]
       IN  IF <<"time">> \in DOMAIN df
           THEN IF entry = "generate_candlestick"
                THEN \E p \in SortOrders(index) :
                        LET rows == FirstOccurrences([i \in DOMAIN p |-> index[p[i]]])
                            kept == [r \in DOMAIN rows |-> p[rows[r]]]
                        IN  /\ heap' = [o \in {"df"} |-> FillInput(Reindex(df, kept))]
                            /\ df_index' = [kind |-> "datetime",
                                            values |-> [r \in DOMAIN kept |-> index[kept[r]]]]
                ELSE /\ heap' = [o \in {"df"} |-> df]
                     /\ df_index' = [kind |-> "datetime", values |-> index]
           ELSE /\ heap' = [o \in {"df"} |->
                              IF entry = "generate_candlestick" THEN FillInput(df) ELSE df]
                /\ df_index' = [kind |-> "range",
                                values |-> [i \in 0..(Len(Get(data, "candles", <<>>)) - 1) |-> i]]
    /\ main_df' = "df"
    /\ main_pc' = "check"
    /\ UNCHANGED <<indicators, result_df, k, pc, stderr, entry, data, stdout, exit_code>>
    /\ UNCHANGED httpvars

\* for col in required_columns: if col not in df.columns: sys.exit(1)
MainCheck ==
    /\ main_pc = "check"
    /\ IF \E col \in required_columns : <<col>> \notin DOMAIN heap[main_df]
       THEN main_pc' = "exited" /\ exit_code' = 1
       ELSE main_pc' = "volume" /\ exit_code' = exit_code
    /\ UNCHANGED addvars
    /\ UNCHANGED httpvars
    /\ UNCHANGED <<entry, data, main_df, df_index, stdout>>

\* if 'volume' not in df.columns: df['volume'] = 0
MainVolume ==
    /\ main_pc = "volume"
    /\ heap' = IF <<"volume">> \in DOMAIN heap[main_df]
               THEN heap
               ELSE [heap EXCEPT ![main_df] =
                        SetCol(heap[main_df], <<"volume">>, Zeros(NRows(heap[main_df])))]
    /\ main_pc' = "indicators"
    /\ UNCHANGED <<indicators, result_df, k, pc, stderr>>
    /\ UNCHANGED <<entry, data, main_df, df_index, stdout, exit_code>>
    /\ UNCHANGED httpvars

\* the call of add_indicators: generate_indicators always calls it, with
\* data.get('indicators', []); generate_candlestick calls it only for a
\* non-empty 'indicators' list
MainAddIndicators ==
    /\ main_pc = "indicators"
    /\ IF entry = "generate_indicators"
          \/ ("indicators" \in DOMAIN data /\ data["indicators"] /= <<>>)
       THEN /\ indicators' = Get(data, "indicators", <<>>)
            /\ pc' = "call"
            /\ main_pc' = "called"
       ELSE /\ main_pc' = "render"
            /\ UNCHANGED <<indicators, pc>>
    /\ UNCHANGED <<heap, result_df, k, stderr>>
    /\ UNCHANGED <<entry, data, main_df, df_index, stdout, exit_code>>
    /\ UNCHANGED httpvars

\* add_indicators is over: df = <the returned series>, or the exception
\* reaches main()'s `except Exception`, which ends in sys.exit(1)
MainReturn ==
    /\ main_pc = "called"
    /\ pc \in {"done", "raised"}
    /\ IF pc = "raised"
       THEN main_pc' = "exited" /\ exit_code' = 1 /\ main_df' = main_df
       ELSE main_pc' = "render" /\ exit_code' = exit_code /\ main_df' = result_df
    /\ UNCHANGED addvars
    /\ UNCHANGED httpvars
    /\ UNCHANGED <<entry, data, df_index, stdout>>

\* the chart is drawn and its PNG bytes are written to stdout, or drawing
\* raises and the program ends in sys.exit(1); mplfinance (generate_candlestick)
\* raises for a frame whose index is not a datetime index
MainRender ==
    /\ main_pc = "render"
    /\ \/ /\ entry = "generate_candlestick" => df_index.kind = "datetime"
          /\ stdout' = << <<"PNG", DOMAIN heap[main_df]>> >>
          /\ exit_code' = 0
       \/ /\ stdout' = stdout
          /\ exit_code' = 1
    /\ main_pc' = "exited"
    /\ UNCHANGED addvars
    /\ UNCHANGED httpvars
    /\ UNCHANGED <<entry, data, main_df, df_index>>

NextMain ==
    \/ MainLoad
    \/ MainCheck
    \/ MainVolume
    \/ MainAddIndicators
    \/ Enter
    \/ Iterate
    \/ FillAndReturn
    \/ MainReturn
    \/ MainRender

SpecMain == MainInit /\ [][NextMain]_vars

(***************************************************************************)
(* The HTTP service (main.py): add_indicators(df, indicators) is called    *)
(* with the request's dict of indicators, name -> params, in the order of  *)
(* the request.  It writes the indicator columns into df and returns the   *)
(* list of plots.  A plot is recorded by its column and its panel.         *)
(***************************************************************************)
\* most bars of a request to the service, most entries of its dict
MaxHttpBars == 6

MaxHttpIndicators == 10

\* `if data_points < 5`
MinDataPoints == 5

\* `if total_indicators > 8`
MaxIndicators == 8

\* the defaults of params.get
SmaPeriodDefault == 20

AtrPeriodDefault == 14

RsiPeriodDefault == 14

EmaPeriodDefault == 20

BollingerPeriodDefault == 20

BollingerStdDevDefault == 2

MacdFastDefault == 12

MacdSlowDefault == 26

MacdSignalDefault == 9

\* Python min and max of integers
PyMin(a, b) == IF b < a THEN b ELSE a

PyMax(a, b) == IF b > a THEN b ELSE a

\* not series.dropna().empty
HasValue(series) == \E i \in DOMAIN series : ~IsNaN(series[i])

\* the ATR branch: tr = max(|high-low|, |high-close.shift()|,
\* |low-close.shift()|) row by row, the NaN of the first row skipped, then
\* tr.rolling(window).mean()
service_atr(high, low, close, window) ==
    LET tr == [i \in DOMAIN close |->
                  IF i = 0 THEN FAbs(FSub(high[i], low[i]))
                  ELSE FMax(FAbs(FSub(high[i], low[i])),
                            FMax(FAbs(FSub(high[i], close[i - 1])),
                                 FAbs(FSub(low[i], close[i - 1]))))]
    IN  calculate_sma(tr, window)

\* the RSI branch: rolling means of the gains and losses of close.diff(), a
\* zero average loss replaced by 1e-10, rsi = 100 - 100 / (1 + rs)
service_rsi(close, window) ==
    LET delta == [i \in DOMAIN close |->
                     IF i = 0 THEN NaN ELSE FSub(close[i], close[i - 1])]
        gain == [i \in DOMAIN close |->
                    IF ~IsNaN(delta[i]) /\ FGt(delta[i], Num(0)) THEN delta[i] ELSE Num(0)]
        loss == [i \in DOMAIN close |->
                    IF ~IsNaN(delta[i]) /\ FLt(delta[i], Num(0)) THEN FNeg(delta[i]) ELSE Num(0)]
        avg_gain == calculate_sma(gain, window)
        avg_loss == calculate_sma(loss, window)
    IN  [i \in DOMAIN close |->
            LET rs == FDiv(avg_gain[i],
                           IF avg_loss[i] = Num(0) THEN <<1, 10^10>> ELSE avg_loss[i])
            IN  FSub(Num(100), FDiv(Num(100), FAdd(Num(1), rs)))]

\* outcomes of one pass through the loop body of the service
Plot(column, panel) == [column |-> column, panel |-> panel]

ServiceDone(frame, plots) == [raised |-> FALSE, df |-> frame, plots |-> plots]

\* an exception left the try block; what was assigned before it stays
ServiceRaised(frame) == [raised |-> TRUE, df |-> frame, plots |-> <<>>]

\* the try block of the loop body for one entry of the dict.  rolling()
\* raises for a negative window and ewm() for a span below 1.
service_indicator(frame, indicator_name, params) ==
    LET n == NRows(frame)
        close == frame[<<"close">>]
        lname == Lower(indicator_name)
    IN
    IF lname = "sma" THEN
        LET period == Get(params, "period", SmaPeriodDefault)
            effective_period == PyMin(period, PyMax(1, n - 1))
        IN  IF effective_period >= 1
               /\ HasValue(calculate_sma(close, effective_period))
            THEN ServiceDone(SetCol(frame, <<"SMA", period>>,
                                    calculate_sma(close, effective_period)),
                             << Plot(<<"SMA", period>>, 0) >>)
            ELSE ServiceDone(frame, <<>>)
    ELSE IF lname = "atr" THEN
        LET period == Get(params, "period", AtrPeriodDefault)
            effective_period == PyMin(period, PyMax(2, n - 1))
        IN  IF n >= effective_period + 1
            THEN IF effective_period < 0 THEN ServiceRaised(frame)
                 ELSE LET atr_values == service_atr(frame[<<"high">>], frame[<<"low">>],
                                                    close, effective_period)
                      IN  IF HasValue(atr_values)
                          THEN ServiceDone(SetCol(frame, <<"ATR">>, atr_values),
                                           << Plot(<<"ATR">>, 3) >>)
                          ELSE ServiceDone(frame, <<>>)
            ELSE ServiceDone(frame, <<>>)
    ELSE IF lname = "rsi" THEN
        LET period == Get(params, "period", RsiPeriodDefault)
            effective_period == PyMin(period, PyMax(2, n - 1))
        IN  IF n >= effective_period + 1
            THEN IF effective_period < 0 THEN ServiceRaised(frame)
                 ELSE LET rsi_values == service_rsi(close, effective_period)
                      IN  IF HasValue(rsi_values)
                          THEN ServiceDone(SetCol(frame, <<"RSI">>, rsi_values),
                                           << Plot(<<"RSI">>, 2) >>)
                          ELSE ServiceDone(frame, <<>>)
            ELSE ServiceDone(frame, <<>>)
    ELSE IF lname = "ema" THEN
        LET period == Get(params, "period", EmaPeriodDefault)
            effective_period == PyMin(period, PyMax(1, n - 1))
        IN  IF effective_period >= 1
               /\ HasValue(calculate_ema(close, effective_period))
            THEN ServiceDone(SetCol(frame, <<"EMA", period>>,
                                    calculate_ema(close, effective_period)),
                             << Plot(<<"EMA", period>>, 0) >>)
            ELSE ServiceDone(frame, <<>>)
    ELSE IF lname = "bollinger" THEN
        LET period == Get(params, "period", BollingerPeriodDefault)
            std_dev == Get(params, "std_dev", BollingerStdDevDefault)
            window == PyMin(period, PyMax(2, n - 1))
        IN  IF n >= window
            THEN IF window < 0 THEN ServiceRaised(frame)
                 ELSE LET bb == calculate_bollinger_bands(close, window, Num(std_dev))
                      IN  IF HasValue(bb.middle) /\ HasValue(rolling_var(close, window))
                          THEN ServiceDone(
                                   SetCol(SetCol(SetCol(frame,
                                       <<"BB_middle", period>>, bb.middle),
                                       <<"BB_upper", period>>, bb.upper),
                                       <<"BB_lower", period>>, bb.lower),
                                   << Plot(<<"BB_upper", period>>, 0),
                                      Plot(<<"BB_middle", period>>, 0),
                                      Plot(<<"BB_lower", period>>, 0) >>)
                          ELSE ServiceDone(frame, <<>>)
            ELSE ServiceDone(frame, <<>>)
    ELSE IF lname = "macd" THEN
        LET fast == PyMin(Get(params, "fast", MacdFastDefault), n \div 4)
            slow == PyMin(Get(params, "slow", MacdSlowDefault), n \div 3)
            signal == PyMin(Get(params, "signal", MacdSignalDefault), n \div 5)
        IN  IF n >= PyMax(PyMax(fast, slow), signal) + 1
            THEN IF fast < 1 THEN ServiceRaised(frame)
                 ELSE LET with_fast == SetCol(frame, <<"EMA_fast">>, calculate_ema(close, fast))
                      IN  IF slow < 1 THEN ServiceRaised(with_fast)
                          ELSE LET macd == calculate_macd(close, fast, slow, PyMax(signal, 1))
                                   with_line == SetCol(SetCol(with_fast,
                                                    <<"EMA_slow">>, calculate_ema(close, slow)),
                                                    <<"MACD_line">>, macd.macd)
                               IN  IF signal < 1 THEN ServiceRaised(with_line)
                                   ELSE ServiceDone(
                                            SetCol(SetCol(with_line,
                                                <<"MACD_signal">>, macd.signal),
                                                <<"MACD_histogram">>, macd.histogram),
                                            << Plot(<<"MACD_line">>, 1),
                                               Plot(<<"MACD_signal">>, 1),
                                               Plot(<<"MACD_histogram">>, 1) >>)
            ELSE ServiceDone(frame, <<>>)
    ELSE ServiceDone(frame, <<>>)

\* fault: every requested indicator is kept
limit_indicators_none(requested) == requested

\* `if total_indicators > 8`: the first 8 keys of the dict, in their order
limit_indicators(requested) ==
    IF Len(requested) > MaxIndicators
    THEN SubSeq(requested, 1, MaxIndicators)
    ELSE requested

\* bar i of a request to the service: the closes alternate, down first
ServiceBar(base, i) ==
    LET c == base + ((i + 1) % 2)
    IN  [open |-> Num(c), high |-> Num(c + 1), low |-> Num(c - 1),
         close |-> Num(c), volume |-> Num(i)]

ServiceFrame(base, n) ==
    [c \in OHLCV |-> [i \in 0..(n - 1) |-> ServiceBar(base, i)[c[1]]]]

\* the entries of the dicts sent to the service; a dict has no key twice
ServiceEntries ==
    << [name |-> "sma", params |-> [period |-> 2]],
       [name |-> "ATR", params |-> [period |-> -1]],
       [name |-> "ema", params |-> [period |-> 3]],
       [name |-> "rsi", params |-> [period |-> 2]],
       [name |-> "bollinger", params |-> [period |-> 2, std_dev |-> 2]],
       [name |-> "macd", params |-> [fast |-> 1, slow |-> 0, signal |-> 1]],
       [name |-> "atr", params |-> [period |-> 2]],
       [name |-> "SMA", params |-> [period |-> 9]],
       [name |-> "vwap", params |-> <<>>],
       [name |-> "MACD", params |-> [fast |-> 1, slow |-> 2, signal |-> 1]] >>

\* the entries from the j-th on, then the ones before it
Rotated(entries, j) ==
    [i \in 1..Len(entries) |-> entries[((i + j - 2) % Len(entries)) + 1]]

\* the dicts: the first m entries of a rotation of the entries
ServiceDicts ==
    { SubSeq(Rotated(ServiceEntries, j), 1, PyMin(m, Len(ServiceEntries))) :
          j \in {1, 4, 7}, m \in 0..MaxHttpIndicators }

\* a call add_indicators(df, request.indicators) of the service
HttpInit ==
    /\ \E base \in 1..2, n \in (MinDataPoints - 2)..MaxHttpBars :
           heap = [o \in {"df"} |-> ServiceFrame(base, n)]
    /\ indicators \in ServiceDicts
    /\ data = [indicators |-> indicators]
    /\ entry = "service"
    /\ result_df = "none"
    /\ k = 0
    /\ pc = "call"
    /\ stderr = <<>>
    /\ main_pc = "none"
    /\ main_df = "none"
    /\ df_index = <<>>
    /\ stdout = <<>>
    /\ exit_code = -1
    /\ addplots = <<>>
    /\ processed = 0

\* the function up to its loop: the early returns for an empty dict and for
\* fewer than 5 rows, then the limit of 8 indicators
HttpEnter ==
    /\ pc = "call"
    /\ addplots' = <<>>
    /\ IF indicators = <<>>
       THEN /\ pc' = "done"
            /\ UNCHANGED <<indicators, k, processed, stderr>>
       ELSE IF NRows(heap["df"]) < MinDataPoints
       THEN /\ stderr' = stderr \o << <<"Insufficient data points", NRows(heap["df"])>> >>
            /\ pc' = "done"
            /\ UNCHANGED <<indicators, k, processed>>
       ELSE /\ processed' = 0
            /\ indicators' = limit_indicators(indicators)
            /\ stderr' = IF Len(indicators) > MaxIndicators
                         THEN stderr \o << <<"Too many indicators requested", Len(indicators)>> >>
                         ELSE stderr
            /\ k' = 1
            /\ pc' = "loop"
    /\ UNCHANGED <<heap, result_df>>
    /\ UNCHANGED mainvars

\* one iteration of `for indicator_name, params in indicators.items()`: the
\* try block assigns columns of df and appends plots; an exception is logged
\* and the loop goes on
HttpIterate ==
    /\ pc = "loop"
    /\ k <= Len(indicators)
    /\ LET r == service_indicator(heap["df"], indicators[k].name, indicators[k].params)
       IN  /\ heap' = [heap EXCEPT !["df"] = r.df]
           /\ addplots' = addplots \o r.plots
           /\ stderr' = stderr
                        \o << <<"Processing indicator", indicators[k].name>> >>
                        \o (IF r.raised
                            THEN << <<"Error calculating indicator", indicators[k].name>> >>
                            ELSE <<>>)
    /\ processed' = processed + 1
    /\ k' = k + 1
    /\ UNCHANGED <<indicators, result_df, pc>>
    /\ UNCHANGED mainvars

\* the loop is over: the plots are returned
HttpReturn ==
    /\ pc = "loop"
    /\ k > Len(indicators)
    /\ stderr' = stderr \o << <<"Added indicator plots", Len(addplots)>> >>
    /\ pc' = "done"
    /\ UNCHANGED <<heap, indicators, result_df, k>>
    /\ UNCHANGED mainvars
    /\ UNCHANGED httpvars

NextHttp == HttpEnter \/ HttpIterate \/ HttpReturn

SpecHttp == HttpInit /\ [][NextHttp]_vars

(***************************************************************************)
(* Vocabulary of the properties: the catalog of indicator types, the bars  *)
(* each needs and the columns each writes, as the specification states     *)
(* them.  These definitions are independent of ProcessIndicator.           *)
(***************************************************************************)
TypeGroups ==
    { {"sma", "ma"}, {"ema"}, {"bb", "bollingerbands"}, {"macd"}, {"rsi"}, {"atr"},
      {"stochastic", "stoch", "stochasticoscillator"}, {"wma"}, {"vwap"},
      {"psar", "parabolicsar"}, {"williamsr", "williams%r", "percentr"},
      {"cci"}, {"mfi"}, {"obv"}, {"adx"} }

\* the group of aliases a request's type belongs to, {} for an unknown type
Resolved(req) ==
    LET t == Lower(Get(req, "type", ""))
    IN  IF \E g \in TypeGroups : t \in g
        THEN CHOOSE g \in TypeGroups : t \in g
        ELSE {}

IsUnknown(req) == Resolved(req) = {}

Param(req, name, default) == Get(Get(req, "params", <<>>), name, default)

\* the least number of bars for which the request is computed
MinBars(req) ==
    LET g == Resolved(req)
    IN  IF "sma" \in g \/ "ema" \in g \/ "wma" \in g \/ "bb" \in g \/ "cci" \in g
            THEN Param(req, "period", DefaultPeriod20)
        ELSE IF "williamsr" \in g THEN Param(req, "period", DefaultPeriod14)
        ELSE IF "rsi" \in g \/ "atr" \in g \/ "mfi" \in g
            THEN Param(req, "period", DefaultPeriod14) + 1
        ELSE IF "macd" \in g
            THEN Param(req, "slowPeriod", DefaultSlowPeriod)
                 + Param(req, "signalPeriod", DefaultSignalPeriod)
        ELSE IF "stoch" \in g
            THEN Param(req, "kPeriod", DefaultPeriod14) + Param(req, "dPeriod", DefaultDPeriod)
        ELSE IF "adx" \in g THEN 2 * Param(req, "period", DefaultPeriod14)
        ELSE IF "psar" \in g \/ "obv" \in g THEN 2
        ELSE 1

\* every period of the request is a positive integer
ValidParams(req) ==
    \A name \in {"period", "fastPeriod", "slowPeriod", "signalPeriod", "kPeriod",
                 "dPeriod", "slowing"} :
        Param(req, name, 1) >= 1

\* the columns a request of a known type writes
ReqColumns(req) ==
    LET g == Resolved(req)
        p == Param(req, "period", DefaultPeriod20)
    IN  IF "sma" \in g THEN {<<"sma", p>>}
        ELSE IF "ema" \in g THEN {<<"ema", p>>}
        ELSE IF "wma" \in g THEN {<<"wma", p>>}
        ELSE IF "bb" \in g THEN {<<"bb_middle", p>>, <<"bb_upper", p>>, <<"bb_lower", p>>}
        ELSE IF "macd" \in g THEN {<<"macd_line">>, <<"macd_signal">>, <<"macd_histogram">>}
        ELSE IF "stoch" \in g THEN {<<"stoch_k">>, <<"stoch_d">>}
        ELSE IF "adx" \in g THEN {<<"adx">>, <<"plus_di">>, <<"minus_di">>}
        ELSE IF "williamsr" \in g THEN {<<"williams_r">>}
        ELSE IF "psar" \in g THEN {<<"psar">>}
        ELSE IF g = {} THEN {}
        ELSE {<<CHOOSE t \in g : TRUE>>}

\* how many columns one request of the type produces
ColumnsPerRequest(req) ==
    LET g == Resolved(req)
    IN  IF "bb" \in g \/ "macd" \in g \/ "adx" \in g THEN 3
        ELSE IF "stoch" \in g THEN 2
        ELSE IF g = {} THEN 0
        ELSE 1

\* the number of bars of the series passed to add_indicators
N == Size(heap["df"][<<"close">>])

\* a request of a known type with positive periods passes / fails its gate
Passes(req) == ~IsUnknown(req) /\ ValidParams(req) /\ N >= MinBars(req)

Fails(req) == ~IsUnknown(req) /\ N < MinBars(req)

\* the value the gap filler is to leave in cell i of a column
GapValue(col, i) ==
    LET before == {j \in DOMAIN col : j < i /\ ~IsNaN(col[j])}
        after == {j \in DOMAIN col : j > i /\ ~IsNaN(col[j])}
    IN  IF ~IsNaN(col[i]) THEN col[i]
        ELSE IF before # {} THEN col[CHOOSE j \in before : \A m \in before : m <= j]
        ELSE IF after # {} THEN col[CHOOSE j \in after : \A m \in after : j <= m]
        ELSE Num(0)

\* the WARNING lines among the diagnostics
Warnings == SelectSeq(stderr, LAMBDA e : e[1] = "WARNING")

(***************************************************************************)
(* Properties of add_indicators (specification Spec)                       *)
(***************************************************************************)
\* C1: partial failure isolation.  A request whose computation raises (a
\* negative SMA period makes pandas' rolling() raise ValueError) does not
\* stop the call: add_indicators never ends by an exception leaving it.
C1_FailureIsolated == pc /= "raised"

\* C2: sufficiency gate.  One pass of the loop over a request of a known
\* type with positive periods writes the request's columns if and only if the
\* series has at least the type's minimum of bars; below the minimum the
\* series is left as it is; in both cases nothing is raised, no other column
\* changes, and the loop goes on to the next request.
C2_SufficiencyGate ==
    [][ (pc = "loop" /\ k <= Len(indicators) /\ ~IsUnknown(indicators[k])
            /\ ValidParams(indicators[k]))
        => /\ pc' = "loop"
           /\ k' = k + 1
           /\ IF N >= MinBars(indicators[k])
              THEN /\ DOMAIN heap'[result_df]
                        = DOMAIN heap[result_df] \cup ReqColumns(indicators[k])
                   /\ \A c \in DOMAIN heap[result_df] \ ReqColumns(indicators[k]) :
                          heap'[result_df][c] = heap[result_df][c]
              ELSE heap'[result_df] = heap[result_df] ]_vars

\* C2 happens: a request below its minimum left no column and the request
\* after it was computed
C2_SkippedThenComputed ==
    /\ pc = "done"
    /\ Len(indicators) = 2
    /\ Fails(indicators[1])
    /\ ReqColumns(indicators[1]) \cap DOMAIN heap["filled"] = {}
    /\ Passes(indicators[2])
    /\ ReqColumns(indicators[2]) \subseteq DOMAIN heap["filled"]

\* C3: after add_indicators has returned, no cell of any column of the
\* returned series is undefined.
C3_NoUndefinedCell ==
    pc = "done" =>
        \A c \in DOMAIN heap["filled"] :
            \A i \in DOMAIN heap["filled"][c] : ~IsNaN(heap["filled"][c][i])

\* C3 happens: the call returned although a request was skipped and a column
\* was undefined in every cell before the filling
C3_AllUndefinedColumnFilled ==
    /\ pc = "done"
    /\ \E j \in 1..Len(indicators) : Fails(indicators[j])
    /\ \E c \in DOMAIN heap["result_df"] :
           \A i \in DOMAIN heap["result_df"][c] : IsNaN(heap["result_df"][c][i])

\* C4: two requests of the same type with different parameters, both
\* passing the gate, end up with a separate set of columns each.
C4_SameTypeCoexists ==
    (/\ pc = "done"
     /\ Len(indicators) = 2
     /\ Resolved(indicators[1]) = Resolved(indicators[2])
     /\ Get(indicators[1], "params", <<>>) /= Get(indicators[2], "params", <<>>)
     /\ Passes(indicators[1])
     /\ Passes(indicators[2]))
    => Cardinality(DOMAIN heap["filled"])
           = Cardinality(DOMAIN heap["df"]) + 2 * ColumnsPerRequest(indicators[1])

\* C5: requests of an unknown type have no effect.  The call ends as it ends
\* for the list without them: it returns in the one case exactly if it
\* returns in the other, and then with the same series.
C5_UnknownTypeNoEffect ==
    pc \in {"done", "raised"} =>
        LET o == add_indicators(heap["df"],
                                SelectSeq(indicators, LAMBDA r : ~IsUnknown(r)))
        IN  /\ o.raised = (pc = "raised")
            /\ pc = "done" => o.df = heap["filled"]

\* C5 happens: the call returned for a list with an unknown type and a
\* request that added a column
C5_UnknownAmongKnown ==
    /\ pc = "done"
    /\ \E j \in 1..Len(indicators) : IsUnknown(indicators[j])
    /\ \E j \in 1..Len(indicators) : Passes(indicators[j])
    /\ DOMAIN heap["filled"] /= DOMAIN heap["df"]

\* C6: gap filler.  Every cell of the returned series holds the value of the
\* same cell after the loop if that was defined, else the last defined value
\* before it in the column, else the first defined value after it, else 0.
\* The filling happens once, after the last request: the filled series exists
\* only when the call has returned, and the series the loop left is the one
\* the requests alone produce.
C6_GapFiller ==
    /\ "filled" \in DOMAIN heap => pc = "done" /\ k = Len(indicators) + 1
    /\ pc = "done" =>
        /\ DOMAIN heap["filled"] = DOMAIN heap["result_df"]
        /\ heap["result_df"] = RunLoop(heap["df"], indicators, 1).df
        /\ \A c \in DOMAIN heap["filled"] :
               \A i \in DOMAIN heap["filled"][c] :
                   heap["filled"][c][i] = GapValue(heap["result_df"][c], i)

\* C6 happens: an undefined cell had different defined values before and
\* after it, and another column began with an undefined cell
C6_GapBetweenValues ==
    /\ pc = "done"
    /\ \E c \in DOMAIN heap["result_df"] :
           \E i, a, b \in DOMAIN heap["result_df"][c] :
               /\ a < i /\ i < b
               /\ IsNaN(heap["result_df"][c][i])
               /\ ~IsNaN(heap["result_df"][c][a])
               /\ ~IsNaN(heap["result_df"][c][b])
               /\ heap["result_df"][c][a] /= heap["result_df"][c][b]
    /\ \E c \in DOMAIN heap["result_df"] : IsNaN(heap["result_df"][c][0])

\* the length of the warm-up region of a request's columns: period-1 for SMA,
\* WMA, Bollinger, ATR, Williams %R and CCI, period for RSI and MFI
WarmupLen(req) ==
    LET g == Resolved(req)
    IN  IF "sma" \in g \/ "wma" \in g \/ "bb" \in g \/ "cci" \in g
            THEN Param(req, "period", DefaultPeriod20) - 1
        ELSE IF "atr" \in g \/ "williamsr" \in g
            THEN Param(req, "period", DefaultPeriod14) - 1
        ELSE IF "rsi" \in g \/ "mfi" \in g THEN Param(req, "period", DefaultPeriod14)
        ELSE 0

\* C7: before the gap filling, every cell in the warm-up region of the
\* columns a request has just written holds the absent-value marker NaN, not
\* a number.
C7_WarmupIsNaN ==
    (pc = "loop" /\ k > 1 /\ Passes(indicators[k - 1])) =>
        \A c \in ReqColumns(indicators[k - 1]) :
            \A i \in DOMAIN heap[result_df][c] :
                i < WarmupLen(indicators[k - 1]) => IsNaN(heap[result_df][c][i])

AppliedCount(list) == Cardinality({j \in 1..Len(list) : Passes(list[j])})

TypeSpellings ==
    { {"sma", "ma", "SMA", "Ma"}, {"ema", "EMA"},
      {"bb", "bollingerbands", "BB", "BollingerBands"}, {"rsi", "RSI"},
      {"stochastic", "stoch", "stochasticoscillator", "Stochastic",
       "StochasticOscillator"},
      {"psar", "parabolicsar", "PSAR", "ParabolicSAR"},
      {"williamsr", "williams%r", "percentr", "WilliamsR", "Williams%R",
       "PercentR"} }

\* the type strings that differ from t only in case or by an alias
Spellings(t) ==
    IF \E g \in TypeSpellings : t \in g
    THEN CHOOSE g \in TypeSpellings : t \in g
    ELSE {t}

\* the requests that differ from req only in the spelling of its type
SpelledAs(req) ==
    IF "type" \in DOMAIN req
    THEN {[req EXCEPT !["type"] = t] : t \in Spellings(req["type"])}
    ELSE {req}

\* the request lists that differ from list only in the spelling of types
Variants(list) ==
    { v \in [1..Len(list) -> UNION {SpelledAs(list[j]) : j \in 1..Len(list)}] :
        \A j \in 1..Len(list) : v[j] \in SpelledAs(list[j]) }

\* C11: request lists that differ only in the letter case of type strings
\* or by an alias give the same outcome of add_indicators on the same series:
\* the same returned DataFrame, or an exception in both calls.
C11_SpellingIrrelevant ==
    /\ pc = "done" =>
           \A v \in Variants(indicators) :
               add_indicators(heap["df"], v) = [raised |-> FALSE, df |-> heap[result_df]]
    /\ pc = "raised" =>
           \A v \in Variants(indicators) : add_indicators(heap["df"], v).raised

\* a list with an alias request whose columns were computed, and a variant
\* of it that names the type by another alias
C11_AliasComputed ==
    /\ pc = "done"
    /\ \E j \in 1..Len(indicators) :
           /\ Get(indicators[j], "type", "") = "stoch"
           /\ <<"stoch_k">> \in DOMAIN heap[result_df]
           /\ \E v \in Variants(indicators) : v[j].type = "StochasticOscillator"


(***************************************************************************)
(* Properties of the library functions (specification SpecLib, except      *)
(* where noted): the request is indicators[1], its column before gap       *)
(* filling is in heap["result_df"], the returned one in heap["filled"].    *)
(***************************************************************************)
\* add_indicators returned from a call with one request of the given type
\* that passed its gate with positive periods
Computed(type) ==
    /\ pc = "done"
    /\ Len(indicators) = 1
    /\ type \in Resolved(indicators[1])
    /\ Passes(indicators[1])

\* the first i + 1 elements of an array
Prefix(a, i) == [j \in 0..i |-> a[j]]

\* Wilder's RSI as the recurrence is stated: the change of bar i is
\* close[i] - close[i-1], the averages are seeded at index period with the
\* mean over the changes of bars 1..period and smoothed with the change of
\* bar i itself
wilder_rsi(close, period) ==
    LET delta == [i \in DOMAIN close |->
                     IF i = 0 THEN Num(0) ELSE FSub(close[i], close[i - 1])]
        gain == [i \in DOMAIN close |->
                     IF FGt(delta[i], Num(0)) THEN delta[i] ELSE Num(0)]
        loss == [i \in DOMAIN close |->
                     IF FLt(delta[i], Num(0)) THEN FNeg(delta[i]) ELSE Num(0)]
        avg_gain[i \in DOMAIN close] ==
            IF i < period THEN Num(0)
            ELSE IF i = period THEN MeanRange(gain, 1, period)
            ELSE FDiv(FAdd(FMul(avg_gain[i - 1], Num(period - 1)), gain[i]), Num(period))
        avg_loss[i \in DOMAIN close] ==
            IF i < period THEN Num(0)
            ELSE IF i = period THEN MeanRange(loss, 1, period)
            ELSE FDiv(FAdd(FMul(avg_loss[i - 1], Num(period - 1)), loss[i]), Num(period))
    IN  [i \in DOMAIN close |->
            IF i < period THEN NaN
            ELSE IF avg_loss[i] = Num(0) THEN Num(100)
            ELSE FSub(Num(100),
                      FDiv(Num(100), FAdd(Num(1), FDiv(avg_gain[i], avg_loss[i]))))]

\* C12: at every index i >= period the RSI column is Wilder's recurrence
\* over the changes close[i] - close[i-1] (seed at index period, smoothing
\* with the gain or loss of bar i itself), and it depends only on the closes
\* of bars 0..i.
C12_RsiRecurrence ==
    Computed("rsi") =>
        LET period == Param(indicators[1], "period", DefaultPeriod14)
            close == heap["df"][<<"close">>]
            rsi == heap["result_df"][<<"rsi">>]
        IN  \A i \in DOMAIN close :
                i >= period =>
                    /\ rsi[i] = wilder_rsi(close, period)[i]
                    /\ rsi[i] = calculate_rsi(Prefix(close, i), period)[i]

\* the parameters of the Parabolic SAR request and the state its scan
\* carries after bar i
AfStart == Param(indicators[1], "afStart", DefaultAfStart)

AfIncrement == Param(indicators[1], "afIncrement", DefaultAfIncrement)

AfMax == Param(indicators[1], "afMax", DefaultAfMax)

PsarAfter(i) ==
    psar_state(heap["df"][<<"high">>], heap["df"][<<"low">>], i,
               AfStart, AfIncrement, AfMax)

\* bar i reverses the trend
Reversal(i) == PsarAfter(i).trend # PsarAfter(i - 1).trend

\* bar i sets a new extreme for the trend in force before it
NewExtreme(i) ==
    LET p == PsarAfter(i - 1)
    IN  IF p.trend = 1 THEN FGt(heap["df"][<<"high">>][i], p.extreme_point)
        ELSE FLt(heap["df"][<<"low">>][i], p.extreme_point)

\* the acceleration factor after bar i follows the three rules
AfRules(i) ==
    LET p == PsarAfter(i - 1)
        q == PsarAfter(i)
    IN  /\ Reversal(i) => q.af = AfStart
        /\ ~Reversal(i) /\ NewExtreme(i) =>
               q.af = FMin(FAdd(p.af, AfIncrement), AfMax)
        /\ ~Reversal(i) /\ ~NewExtreme(i) => q.af = p.af

\* the acceleration factor after bar i is within [afStart, afMax]
AfWithin(i) ==
    /\ ~FLt(PsarAfter(i).af, AfStart)
    /\ ~FGt(PsarAfter(i).af, AfMax)

\* C13 (as stated): in the scan of bars 1..N-1 the acceleration factor is
\* afStart after a reversal, min(af + afIncrement, afMax) after a
\* non-reversal bar that sets a new extreme, unchanged after every other
\* bar, and, given afStart <= afMax, within [afStart, afMax] at every step.
C13_AccelerationFactor ==
    Computed("psar") =>
        \A i \in 1..(N - 1) :
            /\ AfRules(i)
            /\ ~FLt(AfMax, AfStart) => AfWithin(i)

\* C13 (amended): the three rules hold for all parameters; the factor stays
\* within [afStart, afMax] given afStart <= afMax and afIncrement >= 0.
C13_AccelerationFactorNonNegative ==
    Computed("psar") =>
        \A i \in 1..(N - 1) :
            /\ AfRules(i)
            /\ ~FLt(AfMax, AfStart) /\ ~FLt(AfIncrement, Num(0)) => AfWithin(i)

\* a scan in which one bar hits the cap, a later bar reverses the trend and
\* a third leaves the factor as it was
C13_CapThenReversal ==
    /\ Computed("psar")
    /\ \E i, j, m \in 1..(N - 1) :
           /\ i < j
           /\ ~Reversal(i) /\ NewExtreme(i)
           /\ FGt(FAdd(PsarAfter(i - 1).af, AfIncrement), AfMax)
           /\ PsarAfter(i).af = AfMax
           /\ Reversal(j)
           /\ ~Reversal(m) /\ ~NewExtreme(m)

\* the lowest low / highest high of the one or two bars before bar i
PriorLow(i) ==
    LET low == heap["df"][<<"low">>]
    IN  IF i >= 2 THEN FMin(low[i - 1], low[i - 2]) ELSE low[i - 1]

PriorHigh(i) ==
    LET high == heap["df"][<<"high">>]
    IN  IF i >= 2 THEN FMax(high[i - 1], high[i - 2]) ELSE high[i - 1]

\* C14: for every bar i >= 1 the SAR recorded for bar i is at most the lows
\* of bars i-1 and i-2 when the trend after bar i is up, and at least the
\* highs of bars i-1 and i-2 when it is down (bar i-1 alone when i = 1), on
\* reversal bars too.
C14_SarClamped ==
    Computed("psar") =>
        \A i \in 1..(N - 1) :
            LET sar == heap["result_df"][<<"psar">>][i]
            IN  /\ sar = PsarAfter(i).sar
                /\ PsarAfter(i).trend = 1 => ~FGt(sar, PriorLow(i))
                /\ PsarAfter(i).trend = -1 => ~FLt(sar, PriorHigh(i))

\* a scan with a reversal at a bar i >= 2, and a non-reversal bar of an
\* uptrend where the low of bar i-2, not that of bar i-1, limits the SAR
C14_ReversalAndClamp ==
    /\ Computed("psar")
    /\ \E i \in 2..(N - 1) : Reversal(i)
    /\ \E i \in 2..(N - 1) :
           /\ ~Reversal(i)
           /\ PsarAfter(i).trend = 1
           /\ PsarAfter(i).sar = heap["df"][<<"low">>][i - 2]
           /\ FLt(heap["df"][<<"low">>][i - 2], heap["df"][<<"low">>][i - 1])

\* the position of the last request of the list that resolves to type
LastOf(type) ==
    LET js == {j \in 1..Len(indicators) : type \in Resolved(indicators[j])}
    IN  CHOOSE j \in js : \A m \in js : m <= j

\* C15 (specification Spec): where the window of the VWAP (bars 0..i without
\* a period, the trailing `period` bars with one) has zero total volume the
\* VWAP column is the close of the bar; at every other defined index it is
\* sum(close * volume) / sum(volume) over the window.
C15_VwapFallback ==
    /\ pc = "done"
    /\ \E j \in 1..Len(indicators) : "vwap" \in Resolved(indicators[j])
    /\ ~HasNaN(heap["df"])
    =>
    LET params == Get(indicators[LastOf("vwap")], "params", <<>>)
        close == heap["df"][<<"close">>]
        volume == heap["df"][<<"volume">>]
        pv == [i \in DOMAIN close |-> FMul(close[i], volume[i])]
        vwap == heap["result_df"][<<"vwap">>]
    IN  \A i \in DOMAIN close :
            LET first == IF "period" \in DOMAIN params
                         THEN i - (params["period"] - 1) ELSE 0
            IN  first >= 0 =>
                    IF SumRange(volume, first, i) = Num(0)
                    THEN vwap[i] = close[i]
                    ELSE vwap[i] = FDiv(SumRange(pv, first, i),
                                        SumRange(volume, first, i))

\* the population variance (divisor period) of the trailing window at i
population_var(prices, period, i) ==
    LET m == MeanRange(prices, i - (period - 1), i)
        sq == [j \in DOMAIN prices |-> FMul(FSub(prices[j], m), FSub(prices[j], m))]
    IN  FDiv(SumRange(sq, i - (period - 1), i), Num(period))

\* (x - m)^2 for a band value x, a rational or a surd q + c * sqrt(r), and a
\* rational m; NaN if x is NaN or x - m is not of the form c * sqrt(r)
OffsetSquared(x, m) ==
    IF IsNaN(x) THEN NaN
    ELSE IF Len(x) = 2 THEN FMul(FSub(x, m), FSub(x, m))
    ELSE IF x[1] = m THEN FMul(FMul(x[2], x[2]), Num(x[3]))
    ELSE NaN

\* x >= m for a band value x and a rational m (false for NaN)
AtLeast(x, m) ==
    /\ ~IsNaN(x)
    /\ IF Len(x) = 2 THEN ~FLt(x, m) ELSE x[1] = m /\ ~FLt(x[2], Num(0))

AtMost(x, m) ==
    /\ ~IsNaN(x)
    /\ IF Len(x) = 2 THEN ~FGt(x, m) ELSE x[1] = m /\ ~FGt(x[2], Num(0))

\* C16 (specification Spec): at every index i >= period-1 of the Bollinger
\* columns, middle is the mean of the trailing `period` closes and
\* upper - middle = middle - lower = stdDev times the population standard
\* deviation of those closes: (upper - middle)^2 = (middle - lower)^2 =
\* stdDev^2 * (sum of squared deviations) / period, upper >= middle >= lower.
C16_BollingerPopulation ==
    Computed("bb") =>
        LET period == Param(indicators[1], "period", DefaultPeriod20)
            stdDev == Param(indicators[1], "stdDev", DefaultStdDev)
            close == heap["df"][<<"close">>]
            middle == heap["result_df"][<<"bb_middle", period>>]
            upper == heap["result_df"][<<"bb_upper", period>>]
            lower == heap["result_df"][<<"bb_lower", period>>]
        IN  \A i \in DOMAIN close :
                i >= period - 1 =>
                    LET v == FMul(FMul(stdDev, stdDev), population_var(close, period, i))
                    IN  /\ middle[i] = MeanRange(close, i - (period - 1), i)
                        /\ OffsetSquared(upper[i], middle[i]) = v
                        /\ OffsetSquared(lower[i], middle[i]) = v
                        /\ AtLeast(upper[i], middle[i])
                        /\ AtMost(lower[i], middle[i])

\* C18: for a period P >= 1 and a series of N >= P bars the SMA column
\* before gap filling is undefined at exactly the indices 0..P-2 and is the
\* mean of the closes i-P+1..i at every index i >= P-1.
C18_SmaWarmup ==
    Computed("sma") =>
        LET P == Param(indicators[1], "period", DefaultPeriod20)
            close == heap["df"][<<"close">>]
            sma == heap["result_df"][<<"sma", P>>]
        IN  /\ {i \in DOMAIN sma : IsNaN(sma[i])} = 0..(P - 2)
            /\ \A i \in (P - 1)..(N - 1) :
                   FMul(sma[i], Num(P)) = SumRange(close, i - P + 1, i)

\* an SMA of period 3 over four bars whose closes are not all equal
C18_SmaOfThree ==
    /\ Computed("sma")
    /\ Param(indicators[1], "period", DefaultPeriod20) = 3
    /\ N = 4
    /\ heap["df"][<<"close">>][0] # heap["df"][<<"close">>][3]
    /\ ~IsNaN(heap["result_df"][<<"sma", 3>>][3])

\* 0 <= x <= 100, for a defined x
InPercentRange(x) == ~IsNaN(x) /\ ~FLt(x, Num(0)) /\ ~FGt(x, Num(100))

\* C19: the RSI column is within [0, 100] at every index i >= period, for
\* every close series and every period that passes the gate.
C19_RsiBounded ==
    Computed("rsi") =>
        LET period == Param(indicators[1], "period", DefaultPeriod14)
        IN  \A i \in period..(N - 1) :
                InPercentRange(heap["result_df"][<<"rsi">>][i])

\* an RSI whose smoothing loop ran and gave a value strictly between the
\* bounds
C19_RsiInside ==
    /\ Computed("rsi")
    /\ \E i \in (Param(indicators[1], "period", DefaultPeriod14) + 1)..(N - 1) :
           /\ FGt(heap["result_df"][<<"rsi">>][i], Num(0))
           /\ FLt(heap["result_df"][<<"rsi">>][i], Num(100))

\* C20: for bars with low <= close <= high and kPeriod, dPeriod, slowing
\* >= 1 that pass the gate, the returned columns stoch_k and stoch_d are
\* within [0, 100] at every index, and raw %K (the column stoch_k computed
\* without slowing) is 50 wherever the highest high of the window equals
\* its lowest low.
C20_StochasticBounded ==
    Computed("stoch") =>
        LET kPeriod == Param(indicators[1], "kPeriod", DefaultPeriod14)
            dPeriod == Param(indicators[1], "dPeriod", DefaultDPeriod)
            slowing == Param(indicators[1], "slowing", DefaultSlowing)
            high == heap["df"][<<"high">>]
            low == heap["df"][<<"low">>]
            close == heap["df"][<<"close">>]
            raw == calculate_stochastic(high, low, close, kPeriod, dPeriod, 1).k
        IN  /\ \A i \in 0..(N - 1) :
                   /\ InPercentRange(heap["filled"][<<"stoch_k">>][i])
                   /\ InPercentRange(heap["filled"][<<"stoch_d">>][i])
            /\ \A i \in (kPeriod - 1)..(N - 1) :
                   MaxRange(high, i - (kPeriod - 1), i) = MinRange(low, i - (kPeriod - 1), i)
                       => raw[i] = Num(50)
            /\ slowing = 1 => heap["result_df"][<<"stoch_k">>] = raw

\* a stochastic over a series with a window of zero range (raw %K 50) and a
\* bar that closes at the highest high (raw %K 100)
C20_BoundsReached ==
    /\ Computed("stoch")
    /\ LET kPeriod == Param(indicators[1], "kPeriod", DefaultPeriod14)
           high == heap["df"][<<"high">>]
           low == heap["df"][<<"low">>]
       IN  /\ \E i \in (kPeriod - 1)..(N - 1) :
                  /\ MaxRange(high, i - (kPeriod - 1), i)
                         = MinRange(low, i - (kPeriod - 1), i)
                  /\ heap["filled"][<<"stoch_k">>][i] = Num(50)
           /\ \E j \in 0..(N - 1) : heap["filled"][<<"stoch_k">>][j] = Num(100)
           /\ \E j \in 0..(N - 1) : heap["filled"][<<"stoch_d">>][j] = Num(75)

\* C21: OBV[0] = 0 and, for every i >= 1, OBV[i] is OBV[i-1] plus the
\* volume of bar i if the close rose, minus it if the close fell, and
\* OBV[i-1] if the close is unchanged; over a strictly increasing close
\* series with non-negative volumes OBV never decreases.
C21_ObvRunningTotal ==
    Computed("obv") =>
        LET close == heap["df"][<<"close">>]
            volume == heap["df"][<<"volume">>]
            obv == heap["result_df"][<<"obv">>]
        IN  /\ obv[0] = Num(0)
            /\ \A i \in 1..(N - 1) :
                   obv[i] = IF FGt(close[i], close[i - 1]) THEN FAdd(obv[i - 1], volume[i])
                            ELSE IF FLt(close[i], close[i - 1]) THEN FSub(obv[i - 1], volume[i])
                            ELSE obv[i - 1]
            /\ (/\ \A i \in 1..(N - 1) : FGt(close[i], close[i - 1])
                /\ \A i \in 0..(N - 1) : ~FLt(volume[i], Num(0)))
                   => \A i \in 1..(N - 1) : ~FLt(obv[i], obv[i - 1])

\* an OBV over four bars whose close rises, falls and stays, with a
\* positive volume on the first bar and on a rising and a falling bar
C21_RiseFallStay ==
    /\ Computed("obv")
    /\ N = 4
    /\ LET close == heap["df"][<<"close">>]
           volume == heap["df"][<<"volume">>]
       IN  /\ FGt(volume[0], Num(0))
           /\ \E i, j, m \in 1..3 :
                  /\ FGt(close[i], close[i - 1]) /\ FGt(volume[i], Num(0))
                  /\ FLt(close[j], close[j - 1]) /\ FGt(volume[j], Num(0))
                  /\ close[m] = close[m - 1]

\* C22 (specification Spec): the gap-filling pass applied to a series that
\* has been through it gives the same series, and add_indicators with an
\* empty request list applied to its own output returns that output.
C22_FillIdempotent ==
    pc = "done" =>
        /\ FillGaps(FillGaps(heap["result_df"])) = FillGaps(heap["result_df"])
        /\ FillGaps(heap["filled"]) = heap["filled"]
        /\ add_indicators(heap["filled"], <<>>) = [raised |-> FALSE, df |-> heap["filled"]]

\* a returned series in which the pass filled a leading gap of two cells
\* from the value behind it
C22_GapOfTwoFilled ==
    /\ pc = "done"
    /\ \E c \in DOMAIN heap["result_df"] :
           /\ N = 3
           /\ IsNaN(heap["result_df"][c][0])
           /\ IsNaN(heap["result_df"][c][1])
           /\ ~IsNaN(heap["result_df"][c][2])
           /\ heap["filled"][c][0] = heap["result_df"][c][2]

\* C23: EMA[0] = close[0] and EMA[i] = EMA[i-1] + alpha * (close[i] -
\* EMA[i-1]) with alpha = 2 / (period + 1) for every i >= 1, so the column
\* is defined from index 0; with period 1 it is the close series.
C23_EmaRecurrence ==
    Computed("ema") =>
        LET period == Param(indicators[1], "period", DefaultPeriod20)
            alpha == Rat(2, period + 1)
            close == heap["df"][<<"close">>]
            ema == heap["result_df"][<<"ema", period>>]
        IN  /\ ema[0] = close[0]
            /\ \A i \in 1..(N - 1) :
                   ema[i] = FAdd(ema[i - 1], FMul(alpha, FSub(close[i], ema[i - 1])))
            /\ \A i \in 0..(N - 1) : ~IsNaN(ema[i])
            /\ period = 1 => ema = close

\* an EMA of period 2 over four bars that differs from the close at the
\* last bar
C23_EmaSmooths ==
    /\ Computed("ema")
    /\ Param(indicators[1], "period", DefaultPeriod20) = 2
    /\ N = 4
    /\ heap["result_df"][<<"ema", 2>>][3] # heap["df"][<<"close">>][3]

\* the MACD relations hold in a frame: line = EMA(fast) - EMA(slow) of the
\* close, signal = EMA(line, signal period), histogram = line - signal
MacdRelations(frame, close, fast, slow, signal) ==
    LET macd_line == frame[<<"macd_line">>]
        macd_signal == frame[<<"macd_signal">>]
        macd_histogram == frame[<<"macd_histogram">>]
    IN  /\ \A i \in DOMAIN close :
               /\ macd_histogram[i] = FSub(macd_line[i], macd_signal[i])
               /\ macd_line[i] = FSub(calculate_ema(close, fast)[i],
                                      calculate_ema(close, slow)[i])
               /\ ~IsNaN(macd_histogram[i])
        /\ macd_signal = calculate_ema(macd_line, signal)

\* C24: for a MACD request that passes the gate, macd_histogram[i] =
\* macd_line[i] - macd_signal[i] at every index of the returned series,
\* before and after gap filling, with macd_line = EMA(fast) - EMA(slow) of
\* the close and macd_signal = EMA(macd_line, signal).
C24_MacdHistogram ==
    Computed("macd") =>
        LET fast == Param(indicators[1], "fastPeriod", DefaultFastPeriod)
            slow == Param(indicators[1], "slowPeriod", DefaultSlowPeriod)
            signal == Param(indicators[1], "signalPeriod", DefaultSignalPeriod)
            close == heap["df"][<<"close">>]
        IN  /\ MacdRelations(heap["result_df"], close, fast, slow, signal)
            /\ MacdRelations(heap["filled"], close, fast, slow, signal)

\* a MACD over four bars whose histogram is positive at one bar and
\* negative at another
C24_HistogramBothSigns ==
    /\ Computed("macd")
    /\ N = 4
    /\ \E i, j \in 0..3 :
           /\ FGt(heap["filled"][<<"macd_histogram">>][i], Num(0))
           /\ FLt(heap["filled"][<<"macd_histogram">>][j], Num(0))

\* every bar of the series has high = low = close = the close of bar 0
ConstantSeries ==
    \A i \in 0..(N - 1) :
        /\ heap["df"][<<"close">>][i] = heap["df"][<<"close">>][0]
        /\ heap["df"][<<"high">>][i] = heap["df"][<<"close">>][0]
        /\ heap["df"][<<"low">>][i] = heap["df"][<<"close">>][0]

\* C25: over a series whose bars all have high = low = close = c, for
\* periods that pass the gate, SMA(P)[i] = c for i >= P-1, RSI(P)[i] = 100
\* for i >= P, and ATR(P)[i] = 0 at every bar.
C25_ConstantSeries ==
    ConstantSeries =>
        LET c == heap["df"][<<"close">>][0]
            P == Param(indicators[1], "period", DefaultPeriod14)
        IN  /\ Computed("sma") =>
                   \A i \in (P - 1)..(N - 1) : heap["result_df"][<<"sma", P>>][i] = c
            /\ Computed("rsi") =>
                   \A i \in P..(N - 1) : heap["result_df"][<<"rsi">>][i] = Num(100)
            /\ Computed("atr") =>
                   \A i \in 0..(N - 1) : heap["result_df"][<<"atr">>][i] = Num(0)

\* an ATR of period 2 over four equal bars
C25_AtrOfConstant ==
    /\ ConstantSeries
    /\ Computed("atr")
    /\ N = 4
    /\ Param(indicators[1], "period", DefaultPeriod14) = 2
    /\ heap["result_df"][<<"atr">>][3] = Num(0)

\* C26 (as stated): for every bar i >= 1, after bar i is processed,
\* sar[i] <= low[i] if the trend is then up and sar[i] >= high[i] if it is
\* then down, on reversal bars too.
C26_SarProtectiveSide ==
    Computed("psar") =>
        \A i \in 1..(N - 1) :
            /\ PsarAfter(i).trend = 1 =>
                   ~FGt(heap["result_df"][<<"psar">>][i], heap["df"][<<"low">>][i])
            /\ PsarAfter(i).trend = -1 =>
                   ~FLt(heap["result_df"][<<"psar">>][i], heap["df"][<<"high">>][i])

\* C26 (amended): on every bar i >= 1 that does not reverse the trend,
\* sar[i] <= low[i] in an uptrend and sar[i] >= high[i] in a downtrend; on a
\* reversal bar sar[i] is the extreme point of the trend that ended.
C26_SarProtectiveUnlessReversal ==
    Computed("psar") =>
        \A i \in 1..(N - 1) :
            LET sar == heap["result_df"][<<"psar">>][i]
            IN  /\ ~Reversal(i) /\ PsarAfter(i).trend = 1 =>
                       ~FGt(sar, heap["df"][<<"low">>][i])
                /\ ~Reversal(i) /\ PsarAfter(i).trend = -1 =>
                       ~FLt(sar, heap["df"][<<"high">>][i])
                /\ Reversal(i) => sar = PsarAfter(i - 1).extreme_point

\* a scan with a bar that ends the uptrend and whose high is above the
\* recorded SAR, and a later bar that keeps the downtrend
C26_OutsideBarReverses ==
    /\ Computed("psar")
    /\ \E i, j \in 1..(N - 1) :
           /\ i < j
           /\ Reversal(i)
           /\ PsarAfter(i).trend = -1
           /\ FGt(heap["df"][<<"high">>][i], heap["result_df"][<<"psar">>][i])
           /\ ~Reversal(j)
           /\ PsarAfter(j).trend = -1

\* the returned columns of request j are those of a call with that request
\* alone on the same series
ColumnsAreThoseOf(j) ==
    \A c \in ReqColumns(indicators[j]) :
        /\ c \in DOMAIN heap["filled"]
        /\ heap["filled"][c] = add_indicators(heap["df"], <<indicators[j]>>).df[c]

\* C27 (specification Spec): for two requests that resolve to the same
\* column names the returned series holds the values computed for the
\* later one, and those of the earlier one if the later one fails its gate.
C27_LaterRequestWins ==
    /\ pc = "done"
    /\ Len(indicators) = 2
    /\ ~IsUnknown(indicators[1])
    /\ ReqColumns(indicators[1]) = ReqColumns(indicators[2])
    /\ Passes(indicators[1])
    =>
    /\ Passes(indicators[2]) => ColumnsAreThoseOf(2)
    /\ Fails(indicators[2]) => ColumnsAreThoseOf(1)

\* two requests for the same column of which the later one was computed
\* and gives other values than the earlier one alone
C27_Overwritten ==
    /\ pc = "done"
    /\ Len(indicators) = 2
    /\ ~IsUnknown(indicators[1])
    /\ ReqColumns(indicators[1]) = ReqColumns(indicators[2])
    /\ Passes(indicators[1])
    /\ Passes(indicators[2])
    /\ \E c \in ReqColumns(indicators[1]) :
           heap["filled"][c] # add_indicators(heap["df"], <<indicators[1]>>).df[c]

\* the function a request invokes, for the functions with a seed index
SeededFunction(req) ==
    IF "rsi" \in Resolved(req) THEN "rsi"
    ELSE IF "atr" \in Resolved(req) THEN "atr"
    ELSE IF "adx" \in Resolved(req) THEN "adx"
    ELSE "none"

\* C28: a request with positive integer periods that passed its gate and
\* was computed ran to completion, and every seed index its function wrote
\* and every window it read lies within 0..N-1.
C28_IndicesWithinSeries ==
    /\ Len(indicators) = 1 /\ ValidParams(indicators[1]) => pc # "raised"
    /\ (/\ pc = "done"
        /\ Len(indicators) = 1
        /\ ValidParams(indicators[1])
        /\ ReqColumns(indicators[1]) \subseteq DOMAIN heap["result_df"])
       =>
       LET fn == SeededFunction(indicators[1])
           period == Param(indicators[1], "period", DefaultPeriod14)
       IN  /\ seed_indices(fn, period, N) \subseteq 0..(N - 1)
           /\ \A w \in windows_read(fn, period, N) : 0 <= w[1] /\ w[2] <= N - 1

\* an ADX of period 2 computed over exactly four bars: the seed of the ADX
\* line is written at the last index
C28_AdxSeedAtLastIndex ==
    /\ Computed("adx")
    /\ N = 4
    /\ Param(indicators[1], "period", DefaultPeriod14) = 2
    /\ 3 \in seed_indices("adx", 2, N)

\* every bar of the series has low <= close <= high
BarsOrdered ==
    \A i \in 0..(N - 1) :
        /\ ~FGt(heap["df"][<<"low">>][i], heap["df"][<<"close">>][i])
        /\ ~FGt(heap["df"][<<"close">>][i], heap["df"][<<"high">>][i])

\* the smoothed true range of the series for a period
SmoothedTr(period) ==
    adx_smoothed(adx_tr(heap["df"][<<"high">>], heap["df"][<<"low">>],
                        heap["df"][<<"close">>]), period)

\* the directional index of the computed +DI and -DI columns
Dx(period) ==
    adx_dx(heap["result_df"][<<"plus_di">>], heap["result_df"][<<"minus_di">>], period)

\* C29: over bars with low <= close <= high, for every period >= 1 with
\* N >= 2*period, +DI, -DI, DX and ADX are within [0, 100] at every index,
\* at most one of +DM and -DM is non-zero on any bar, and +DI = -DI = DX = 0
\* wherever the smoothed true range is 0.
C29_AdxBounded ==
    Computed("adx") /\ BarsOrdered =>
        LET period == Param(indicators[1], "period", DefaultPeriod14)
            plus_dm == adx_plus_dm(heap["df"][<<"high">>], heap["df"][<<"low">>])
            minus_dm == adx_minus_dm(heap["df"][<<"high">>], heap["df"][<<"low">>])
        IN  \A i \in 0..(N - 1) :
                /\ InPercentRange(heap["result_df"][<<"plus_di">>][i])
                /\ InPercentRange(heap["result_df"][<<"minus_di">>][i])
                /\ InPercentRange(Dx(period)[i])
                /\ InPercentRange(heap["result_df"][<<"adx">>][i])
                /\ plus_dm[i] = Num(0) \/ minus_dm[i] = Num(0)
                /\ SmoothedTr(period)[i] = Num(0) =>
                       /\ heap["result_df"][<<"plus_di">>][i] = Num(0)
                       /\ heap["result_df"][<<"minus_di">>][i] = Num(0)
                       /\ Dx(period)[i] = Num(0)

\* an ADX over a series with a bar of zero smoothed true range past the
\* warm-up, a bar moving up, a bar moving down, and a positive ADX value
C29_AdxMixedMoves ==
    /\ Computed("adx")
    /\ BarsOrdered
    /\ LET period == Param(indicators[1], "period", DefaultPeriod14)
       IN  /\ \E i \in period..(N - 1) : SmoothedTr(period)[i] = Num(0)
           /\ \E i \in 0..(N - 1) : FGt(heap["result_df"][<<"plus_di">>][i], Num(0))
           /\ \E i \in 0..(N - 1) : FGt(heap["result_df"][<<"minus_di">>][i], Num(0))
           /\ \E i \in 0..(N - 1) : FGt(heap["result_df"][<<"adx">>][i], Num(0))

(***************************************************************************)
(* Properties of the programs (specification SpecMain)                     *)
(***************************************************************************)
\* one of open, high, low, close is a field of no candle of the request
MissingRequired ==
    \E f \in {"open", "high", "low", "close"} :
        \A j \in 1..Len(data["candles"]) : f \notin DOMAIN data["candles"][j]

\* volume is a field of no candle of the request
MissingVolume ==
    \A j \in 1..Len(data["candles"]) : "volume" \notin DOMAIN data["candles"][j]

\* C9: in both programs, a request whose candles lack one of open, high,
\* low, close ends with exit status 1 at the validation: add_indicators is
\* never entered and nothing is ever written to stdout.  A request that has
\* the four passes the validation, and if its candles lack volume, the series
\* handed to add_indicators and to the drawing has volume 0 at every bar.
C9_MalformedSeriesAborts ==
    /\ [](MissingRequired =>
            /\ pc = "idle"
            /\ stdout = <<>>
            /\ main_pc \in {"load", "check", "exited"}
            /\ main_pc = "exited" <=> exit_code = 1)
    /\ []((~MissingRequired /\ MissingVolume
              /\ main_pc \in {"indicators", "called", "render", "exited"}) =>
            \A o \in DOMAIN heap :
                \A i \in DOMAIN heap[o][<<"volume">>] : heap[o][<<"volume">>][i] = Num(0))
    /\ [][main_pc = "check" =>
            IF MissingRequired
            THEN main_pc' = "exited" /\ exit_code' = 1
            ELSE main_pc' = "volume" /\ exit_code' = -1]_vars

\* C9 happens: a request with candles and indicators, but without close in
\* any candle, has ended with status 1
C9_AbortedAtValidation ==
    /\ main_pc = "exited"
    /\ exit_code = 1
    /\ Len(data["candles"]) = MaxCandles
    /\ "indicators" \in DOMAIN data
    /\ data["indicators"] /= <<>>
    /\ \A j \in 1..Len(data["candles"]) :
           DOMAIN data["candles"][j] \cap {"open", "high", "low", "close"}
               = {"open", "high", "low"}

\* C17: every series an entry point hands to add_indicators has its
\* timestamps in ascending order with no timestamp twice, whatever the order
\* of the candles in the request.
C17_MonotonicDeduplicated ==
    main_pc = "called" /\ pc = "call" /\ df_index.kind = "datetime" =>
        \A a, b \in DOMAIN df_index.values :
            a < b => df_index.values[a] < df_index.values[b]

(***************************************************************************)
(* Properties of the HTTP service (specification SpecHttp)                 *)
(***************************************************************************)
\* the dict the caller sent, and the entries the limit keeps
Requested == data["indicators"]

FirstEntries ==
    SubSeq(Requested, 1, IF Len(Requested) > MaxIndicators THEN MaxIndicators
                         ELSE Len(Requested))

\* the names of the entries whose loop body was entered, in that order
ProcessedNames ==
    LET lines == SelectSeq(stderr, LAMBDA line : line[1] = "Processing indicator")
    IN  [i \in 1..Len(lines) |-> lines[i][2]]

\* C30: the service's add_indicators bounds its work: of more than 8
\* requested indicators only the first 8 are processed, in their order;
\* with fewer than 5 bars none is processed, no column is written and the
\* plot list is empty; an exception in one indicator does not stop the
\* remaining ones, and none leaves the function.
C30_BoundedWork ==
    /\ pc # "raised"
    /\ processed <= MaxIndicators
    /\ Len(ProcessedNames) = processed
    /\ pc = "done" /\ N < MinDataPoints =>
           /\ addplots = <<>>
           /\ processed = 0
           /\ DOMAIN heap["df"] = OHLCV
    /\ pc = "done" /\ N >= MinDataPoints =>
           ProcessedNames = [i \in 1..Len(FirstEntries) |-> FirstEntries[i].name]

\* ten indicators on five bars or more: the second of them raised, the
\* eighth was processed after it and its plot is the last of the list
C30_EighthAfterException ==
    /\ pc = "done"
    /\ N >= MinDataPoints
    /\ Len(Requested) > MaxIndicators
    /\ \E i \in 1..Len(stderr) : stderr[i] = <<"Error calculating indicator", "ATR">>
    /\ ProcessedNames[MaxIndicators] = "SMA"
    /\ addplots # <<>>
    /\ addplots[Len(addplots)].column = <<"SMA", 9>>

====
